---- MODULE Spec2Model ----
(***************************************************************************)
(* A model of the teaching repository's reference solutions and examples   *)
(* (modules 01-basics and 02-types-interfaces).  Every Go object the       *)
(* properties talk about is a variable holding a record of its fields;     *)
(* every method is an operator from the receiver (and arguments) to the    *)
(* new receiver / the returned values, and an action that calls it once.   *)
(* `calls' is the history of the calls made so far with their arguments    *)
(* and returned values, `stdout' the lines printed through fmt, and        *)
(* `panicked' tells whether a call ended in a run-time panic.              *)
(***************************************************************************)
EXTENDS Integers, Sequences, FiniteSets, TLC

VARIABLES
    counter,    \* a solutions.Counter
    cache,      \* a solutions.Cache
    tsm,        \* a solutions.TypeSafeMap
    db,         \* a solutions.Database
    account,    \* a solutions.Account
    service,    \* a solutions.Service
    fh,         \* an examples.FileHandler
    map1,       \* the first argument of MergeMaps
    map2,       \* the second argument of MergeMaps
    merged,     \* the map MergeMaps returned
    fnArgs,     \* the arguments of the function a scenario calls
    fnRets,     \* the values it returned (none before the call)
    fib,        \* the run of Fibonacci: its position and local variables
    pipe,       \* the run of the README's pipeline: goroutines and channels
    closures,   \* the counters returned by examples.Closures
    frame,      \* the running call of DeferStatement
    cdb,        \* a solutions.CachedDatabase
    now,        \* the reading of the clock (time.Now)
    calls,      \* the calls made so far: operation, arguments, returned
                \* values, and the clock's reading at the call
    stdout,     \* the lines written to standard output
    panicked    \* TRUE once a call has panicked (the run is over)

vars == <<counter, cache, tsm, db, account, service, fh, map1, map2, merged,
          fnArgs, fnRets, fib, pipe, closures, frame, cdb, now, calls, stdout, panicked>>

(***************************************************************************)
(* Bounds of the model.                                                    *)
(***************************************************************************)
MaxCounterCalls == 7
MaxCacheCalls == 4
MaxTypeSafeMapCalls == 3
MaxDatabaseCalls == 7
MaxAccountCalls == 4
MaxTime == 2
MaxServiceCalls == 5
MaxFileHandlerCalls == 4
MaxScore == 105
MaxLen == 4
MaxReverseCalls == 2
MaxShapes == 3
MaxCompareCalls == 2
MaxHalves == 7
MaxFilterLen == 3
MaxNums == 4
MaxNum == 4
MaxClosures == 3
MaxClosureCalls == 6
MaxModelID == 2
MaxDeferCalls == 10
MaxFibonacciArg == 12
MaxIterations == 94
MaxConvert == 40
MaxValuesLen == 3
MaxCachedDatabaseCalls == 3

(***************************************************************************)
(* Call history.                                                           *)
(***************************************************************************)
Call(op, args, rets) == [op |-> op, args |-> args, rets |-> rets, at |-> now]

Record(op, args, rets) == calls' = Append(calls, Call(op, args, rets))

\* The calls made before the i-th one.
Before(i) == SubSeq(calls, 1, i - 1)

(***************************************************************************)
(* The outcome of a call: the receiver as the call left it, the returned   *)
(* values, the lines it printed, and whether it panicked.                  *)
(***************************************************************************)
Ok(self, rets) ==
    [self |-> self, rets |-> rets, out |-> <<>>, panic |-> FALSE]

Panic(self) ==
    [self |-> self, rets |-> <<>>, out |-> <<>>, panic |-> TRUE]

\* The outcome r of a call that also printed the lines `lines'.
Printed(r, lines) == [r EXCEPT !.out = lines]

(***************************************************************************)
(* Go values of type interface{}: a dynamic type and a value of that type. *)
(* A float64 is held in halves (f = 3 is 1.5).  The nil interface has the  *)
(* dynamic type "nil".                                                     *)
(***************************************************************************)
VNil == [type |-> "nil", s |-> "", i |-> 0, f |-> 0, b |-> FALSE]

VString(x) == [VNil EXCEPT !.type = "string", !.s = x]

VInt(x) == [VNil EXCEPT !.type = "int", !.i = x]

VFloat64(x) == [VNil EXCEPT !.type = "float64", !.f = x]

VBool(x) == [VNil EXCEPT !.type = "bool", !.b = x]

(***************************************************************************)
(* Go maps.  A map is nil or made; kv is the function from its keys to     *)
(* their values.  Indexing a nil map reads as an empty map; assigning to   *)
(* an entry of a nil map panics.                                           *)
(***************************************************************************)
NoEntries == [k \in {} |-> VNil]

NilMap == [nil |-> TRUE, kv |-> NoEntries]

MakeMap == [nil |-> FALSE, kv |-> NoEntries]

\* v, ok := m[k], with `zero' the zero value of the map's value type.
MapIndex(m, k, zero) ==
    IF k \in DOMAIN m.kv THEN <<m.kv[k], TRUE>> ELSE <<zero, FALSE>>

\* m[k] = v on a map that is not nil.
MapAssign(m, k, v) ==
    [m EXCEPT !.kv = [x \in DOMAIN m.kv \cup {k} |->
                         IF x = k THEN v ELSE m.kv[x]]]

(***************************************************************************)
(* solutions.Counter                                                       *)
(***************************************************************************)
\* The zero value of Counter.
Counter_Zero == [count |-> 0]

\* A plausible slip, the one planted in the exercise: a value receiver, so
\* the increment is made on a copy and lost.
Counter_Increment_ValueReceiver(c) == c

\* func (c *Counter) Increment() { c.count++ }
Counter_Increment(c) == [c EXCEPT !.count = @ + 1]

\* func (c *Counter) Value() int { return c.count }
Counter_Value(c) == c.count

\* func (c *Counter) Reset() { c.count = 0 }
Counter_Reset(c) == [c EXCEPT !.count = 0]

(***************************************************************************)
(* solutions.Cache                                                         *)
(***************************************************************************)
\* &Cache{}: the map is not initialized.
Cache_Zero == [data |-> NilMap]

\* &Cache{data: make(map[string]interface{})}
Cache_Made == [data |-> MakeMap]

\* func (c *Cache) Get(key string) (interface{}, bool)
Cache_Get(c, key) ==
    IF c.data.nil
    THEN Ok(c, <<VNil, FALSE>>)
    ELSE Ok(c, MapIndex(c.data, key, VNil))

\* A plausible slip, the one planted in the exercise: the map is assigned to
\* without being initialized.
Cache_Set_NoInit(c, key, value) ==
    IF c.data.nil
    THEN Panic(c)
    ELSE Ok([c EXCEPT !.data = MapAssign(c.data, key, value)], <<>>)

\* func (c *Cache) Set(key string, value interface{})
Cache_Set(c, key, value) ==
    LET c1 == IF c.data.nil THEN [c EXCEPT !.data = MakeMap] ELSE c
    IN  IF c1.data.nil
        THEN Panic(c1)
        ELSE Ok([c1 EXCEPT !.data = MapAssign(c1.data, key, value)], <<>>)


(***************************************************************************)
(* Type assertions and type switches on interface{} values.                *)
(***************************************************************************)
\* val, ok := v.(T): ok tells whether the dynamic type of v is T.
AssertOk(v, T) == v.type = T

(***************************************************************************)
(* solutions.TypeSafeMap                                                   *)
(***************************************************************************)
\* func NewTypeSafeMap() *TypeSafeMap
NewTypeSafeMap == [data |-> MakeMap]

\* func (m *TypeSafeMap) Set(key string, value interface{})
TypeSafeMap_Set(m, key, value) ==
    IF m.data.nil
    THEN Panic(m)
    ELSE Ok([m EXCEPT !.data = MapAssign(m.data, key, value)], <<>>)

\* A plausible slip, the one planted in the exercise: neither the presence
\* of the key nor the type of the value is checked, so value.(string) panics
\* on anything but a string.
TypeSafeMap_GetString_Unchecked(m, key) ==
    LET value == MapIndex(m.data, key, VNil)[1]
    IN  IF AssertOk(value, "string") THEN Ok(m, <<value.s>>) ELSE Panic(m)

\* func (m *TypeSafeMap) GetString(key string) string
TypeSafeMap_GetString(m, key) ==
    LET got    == MapIndex(m.data, key, VNil)
        value  == got[1]
        exists == got[2]
    IN  IF ~exists THEN Ok(m, <<"">>)
        ELSE IF AssertOk(value, "string") THEN Ok(m, <<value.s>>)
        ELSE Ok(m, <<"">>)

\* func (m *TypeSafeMap) GetInt(key string) int
TypeSafeMap_GetInt(m, key) ==
    LET got    == MapIndex(m.data, key, VNil)
        value  == got[1]
        exists == got[2]
    IN  IF ~exists THEN Ok(m, <<0>>)
        ELSE IF AssertOk(value, "int") THEN Ok(m, <<value.i>>)
        ELSE Ok(m, <<0>>)

\* A plausible slip, the one planted in the exercise: the value is compared
\* with nil instead of testing the presence of the key.
TypeSafeMap_Contains_NonNil(m, key) ==
    Ok(m, <<MapIndex(m.data, key, VNil)[1] # VNil>>)

\* func (m *TypeSafeMap) Contains(key string) bool
TypeSafeMap_Contains(m, key) ==
    LET exists == MapIndex(m.data, key, VNil)[2]
    IN  Ok(m, <<exists>>)

\* One pass of the loop body of Count: the switch on typeName, for one value
\* of the map.
CountStep(count, value, typeName) ==
    IF typeName = "string" THEN
        IF AssertOk(value, "string") THEN count + 1 ELSE count
    ELSE IF typeName = "int" THEN
        IF AssertOk(value, "int") THEN count + 1 ELSE count
    ELSE IF typeName = "float64" THEN
        IF AssertOk(value, "float64") THEN count + 1 ELSE count
    ELSE IF typeName = "bool" THEN
        IF AssertOk(value, "bool") THEN count + 1 ELSE count
    ELSE count

\* The loop of Count over the entries whose keys are in `todo' (a map is
\* ranged over in an unspecified order; the count does not depend on it).
RECURSIVE CountLoop(_, _, _, _)
CountLoop(kv, todo, typeName, count) ==
    IF todo = {} THEN count
    ELSE LET k == CHOOSE x \in todo : TRUE
         IN  CountLoop(kv, todo \ {k}, typeName,
                       CountStep(count, kv[k], typeName))

\* A plausible slip, in the way of the exercise: the switch counts every
\* value under "string" and "int" without looking at its type.
TypeSafeMap_Count_AnyType(m, typeName) ==
    Ok(m, <<IF typeName \in {"string", "int"}
            THEN Cardinality(DOMAIN m.data.kv) ELSE 0>>)

\* func (m *TypeSafeMap) Count(typeName string) int
TypeSafeMap_Count(m, typeName) ==
    Ok(m, <<CountLoop(m.data.kv, DOMAIN m.data.kv, typeName, 0)>>)

(***************************************************************************)
(* Go slices (nil or not, and the elements), error values, fmt and time.   *)
(***************************************************************************)
NilSlice == [nil |-> TRUE, elems |-> <<>>]

\* []string{}
EmptySlice == [nil |-> FALSE, elems |-> <<>>]

\* append(s, x)
SliceAppend(s, x) == [nil |-> FALSE, elems |-> Append(s.elems, x)]

\* The nil error.
ErrNil == [nil |-> TRUE, msg |-> ""]

\* fmt.Errorf(msg) and errors.New(msg): a non-nil error.
Errorf(msg) == [nil |-> FALSE, msg |-> msg]

\* time.Now()
TimeNow == now

(***************************************************************************)
(* solutions.Logger and solutions.SimpleLogger                             *)
(***************************************************************************)
\* A Logger interface value that holds nothing.
NilLogger == [type |-> "nil", Prefix |-> ""]

\* SimpleLogger{Prefix: prefix} held in a Logger.
SimpleLogger(prefix) == [type |-> "SimpleLogger", Prefix |-> prefix]

\* func (l SimpleLogger) Log(message string): the line it prints.
SimpleLogger_Log(l, message) == "[" \o l.Prefix \o "] " \o message

\* %v of an error: its message, or <nil> for the nil error.
FormatError(err) == IF err.nil THEN "<nil>" ELSE err.msg

\* func (l SimpleLogger) LogError(err error): the line it prints.
SimpleLogger_LogError(l, err) ==
    "[" \o l.Prefix \o "] ERROR: " \o FormatError(err)

\* A call of Log through an embedded Logger: a nil interface panics.
Logger_Log(l, message) ==
    IF l.type = "nil"
    THEN Panic(l)
    ELSE Printed(Ok(l, <<>>), <<SimpleLogger_Log(l, message)>>)

\* A call of LogError through an embedded Logger: a nil interface panics.
Logger_LogError(l, err) ==
    IF l.type = "nil"
    THEN Panic(l)
    ELSE Printed(Ok(l, <<>>), <<SimpleLogger_LogError(l, err)>>)

(***************************************************************************)
(* solutions.Database                                                      *)
(***************************************************************************)
\* &Database{Logger: logger, ConnectionString: connStr, Connected: connected}
Database(logger, connStr, connected) ==
    [Logger |-> logger, ConnectionString |-> connStr, Connected |-> connected]

\* func (db *Database) Connect() error
Database_Connect(d) ==
    LET d1  == [d EXCEPT !.Connected = TRUE]
        log == Logger_Log(d1.Logger, "Database connected")
    IN  IF log.panic THEN Panic(d1)
        ELSE Printed(Ok(d1, <<ErrNil>>), log.out)

\* A plausible slip, the one planted in the exercise: a value receiver, so
\* Connected is cleared on a copy.
Database_Close_ValueReceiver(d) ==
    LET log == Logger_Log(d.Logger, "Database closed")
    IN  IF log.panic THEN Panic(d)
        ELSE Printed(Ok(d, <<ErrNil>>), log.out)

\* func (db *Database) Close() error
Database_Close(d) ==
    LET d1  == [d EXCEPT !.Connected = FALSE]
        log == Logger_Log(d1.Logger, "Database closed")
    IN  IF log.panic THEN Panic(d1)
        ELSE Printed(Ok(d1, <<ErrNil>>), log.out)

\* db.Log(message): Log of the embedded Logger, promoted to the Database.
Database_Log(d, message) ==
    LET log == Logger_Log(d.Logger, message)
    IN  IF log.panic THEN Panic(d) ELSE Printed(Ok(d, <<>>), log.out)

\* db.LogError(err): LogError of the embedded Logger, promoted to the
\* Database.
Database_LogError(d, err) ==
    LET log == Logger_LogError(d.Logger, err)
    IN  IF log.panic THEN Panic(d) ELSE Printed(Ok(d, <<>>), log.out)

(***************************************************************************)
(* solutions.Timestamped and solutions.Account                             *)
(***************************************************************************)
\* A plausible slip, the one planted in the exercise: a value receiver, so
\* the timestamp is set on a copy.
Timestamped_Touch_ValueReceiver(t) == t

\* func (t *Timestamped) Touch()
Timestamped_Touch(t) == [t EXCEPT !.UpdatedAt = TimeNow]

\* func NewAccount(id int, username, email string) *Account
NewAccount(id, username, email) ==
    [Timestamped |-> [CreatedAt |-> TimeNow, UpdatedAt |-> TimeNow],
     ID          |-> id,
     Username    |-> username,
     Email       |-> email,
     auditLog    |-> EmptySlice]

\* func (a *Account) UpdateEmail(email string)
Account_UpdateEmail(a, email) ==
    LET a1 == [a EXCEPT !.Email = email]
        a2 == [a1 EXCEPT !.Timestamped = Timestamped_Touch(@)]
    IN  [a2 EXCEPT !.auditLog =
                       SliceAppend(@, "Email updated to " \o email)]

\* func (a *Account) AuditLog() []string
Account_AuditLog(a) == a.auditLog

\* a.Touch(): Touch of the embedded Timestamped, promoted to the Account.
Account_Touch(a) == [a EXCEPT !.Timestamped = Timestamped_Touch(@)]

(***************************************************************************)
(* solutions.Stats and solutions.Service                                   *)
(***************************************************************************)
\* A plausible slip, the one planted in the exercise: the Logger is left
\* nil.
NewService_NoLogger(name) ==
    [Logger |-> NilLogger,
     Stats  |-> [Counter |-> Counter_Zero, Name |-> name \o "-stats"],
     Name   |-> name]

\* func NewService(name string) *Service
NewService(name) ==
    [Logger |-> SimpleLogger(name),
     Stats  |-> [Counter |-> Counter_Zero, Name |-> name \o "-stats"],
     Name   |-> name]

\* func (s *Service) Start()
Service_Start(s) ==
    LET log == Logger_Log(s.Logger, "Starting service: " \o s.Name)
    IN  IF log.panic THEN Panic(s)
        ELSE Printed(Ok([s EXCEPT !.Stats.Counter = Counter_Increment(@)],
                        <<>>),
                     log.out)

\* s.Value(): Counter.Value promoted through Stats.
Service_Value(s) == Ok(s, <<Counter_Value(s.Stats.Counter)>>)

\* s.Increment(): Counter.Increment promoted through Stats.
Service_Increment(s) ==
    Ok([s EXCEPT !.Stats.Counter = Counter_Increment(@)], <<>>)

\* s.Reset(): Counter.Reset promoted through Stats.
Service_Reset(s) == Ok([s EXCEPT !.Stats.Counter = Counter_Reset(@)], <<>>)

\* s.Log(message): Log of the embedded Logger, promoted to the Service.
Service_Log(s, message) ==
    LET log == Logger_Log(s.Logger, message)
    IN  IF log.panic THEN Panic(s) ELSE Printed(Ok(s, <<>>), log.out)

\* s.LogError(err): LogError of the embedded Logger, promoted to the
\* Service.
Service_LogError(s, err) ==
    LET log == Logger_LogError(s.Logger, err)
    IN  IF log.panic THEN Panic(s) ELSE Printed(Ok(s, <<>>), log.out)

(***************************************************************************)
(* examples.FileHandler                                                    *)
(***************************************************************************)
\* &FileHandler{filename: filename}
FileHandler(filename) == [filename |-> filename, data |-> ""]

\* func (f *FileHandler) Read() string
FileHandler_Read(f) == Ok(f, <<f.data>>)

\* A plausible slip: a value receiver, so the data is stored in a copy.
FileHandler_Write_ValueReceiver(f, data) == Ok(f, <<>>)

\* func (f *FileHandler) Write(data string)
FileHandler_Write(f, data) == Ok([f EXCEPT !.data = data], <<>>)

\* func (f *FileHandler) Close() error
FileHandler_Close(f) ==
    Printed(Ok(f, <<ErrNil>>), <<"Closing file: " \o f.filename>>)

(***************************************************************************)
(* solutions.MergeMaps                                                     *)
(***************************************************************************)
\* for k, v := range src { result[k] = v }, over the keys in `todo' (the
\* order of the range is unspecified; the keys of a map are distinct, so
\* the result does not depend on it).
RECURSIVE CopyInto(_, _, _)
CopyInto(result, src, todo) ==
    IF todo = {} THEN result
    ELSE LET k == CHOOSE x \in todo : TRUE
         IN  CopyInto(MapAssign(result, k, src.kv[k]), src, todo \ {k})

\* A plausible slip, the one planted in the exercise: map2 is not copied.
MergeMaps_Map1Only(m1, m2) == CopyInto(MakeMap, m1, DOMAIN m1.kv)

\* func MergeMaps(map1, map2 map[string]int) map[string]int
MergeMaps(m1, m2) ==
    LET result == CopyInto(MakeMap, m1, DOMAIN m1.kv)
    IN  CopyInto(result, m2, DOMAIN m2.kv)

(***************************************************************************)
(* solutions (01-basics): GetGrade                                         *)
(***************************************************************************)
\* A plausible slip, the one planted in the exercise: the threshold of "D"
\* is 50.
GetGrade_D50(score) ==
    IF score >= 90 THEN "A"
    ELSE IF score >= 80 THEN "B"
    ELSE IF score >= 70 THEN "C"
    ELSE IF score >= 50 THEN "D"
    ELSE "F"

\* func GetGrade(score int) string
GetGrade(score) ==
    IF score >= 90 THEN "A"
    ELSE IF score >= 80 THEN "B"
    ELSE IF score >= 70 THEN "C"
    ELSE IF score >= 60 THEN "D"
    ELSE "F"

(***************************************************************************)
(* Natural numbers of any size, for the values of int and float64 that do  *)
(* not fit an integer of TLC.  A number is the sequence of its digits in   *)
(* base NatBase, the least significant first, without leading zeros; zero  *)
(* is the empty sequence.                                                  *)
(***************************************************************************)
NatBase == 2 ^ 15

\* The natural number of the integer n >= 0.
RECURSIVE NatOf(_)
NatOf(n) == IF n = 0 THEN <<>> ELSE <<n % NatBase>> \o NatOf(n \div NatBase)

\* F of the value of a, and of the values of a and b: a value is computed
\* once, before F is, however often F refers to it.
Let(a, F(_)) == CHOOSE r \in {F(x) : x \in {a}} : TRUE

Let2(a, b, F(_, _)) == CHOOSE r \in {F(x, y) : x \in {a}, y \in {b}} : TRUE

\* p after the steps F(lo, _), ..., F(hi, _), taken in this order: the
\* first half of them, then the others.
Steps(lo, hi, p, F(_, _)) ==
    LET RECURSIVE Some(_, _, _)
        Some(l, h, q) ==
            IF l > h THEN q
            ELSE IF l = h THEN F(l, q)
            ELSE Let(Some(l, (l + h) \div 2, q), LAMBDA r :
                     Some((l + h) \div 2 + 1, h, r))
    IN  Some(lo, hi, p)

\* The digits that the function f on 1..n gives, as a sequence.
Digits(f) == f \o <<>>

\* The greatest i of lo..hi with P[i], or lo - 1 when there is none, for a
\* function P to BOOLEAN.
LastThat(P, lo, hi) ==
    CHOOSE i \in (lo - 1)..hi :
        /\ i >= lo => P[i]
        /\ \A j \in (i + 1)..hi : ~P[j]

\* The digits a without their leading zeros.
NatNorm(a) ==
    Let(Digits(a), LAMBDA x :
        SubSeq(x, 1, LastThat([i \in 1..Len(x) |-> x[i] # 0], 1, Len(x))))

NatDigit(a, i) == IF i <= Len(a) THEN a[i] ELSE 0

\* a + b.  The digits are added one by one, and a carry enters the i-th
\* digit from a sum below it of NatBase or more, through sums of
\* NatBase - 1.
NatCarry(s, i) ==
    IF \E j \in 1..(i - 1) :
           /\ s[j] >= NatBase
           /\ \A k \in (j + 1)..(i - 1) : s[k] = NatBase - 1
    THEN 1 ELSE 0

NatAdd(a, b) ==
    Let2(a, b, LAMBDA x, y :
    Let(Digits([i \in 1..((IF Len(x) > Len(y) THEN Len(x) ELSE Len(y)) + 1)
                   |-> NatDigit(x, i) + NatDigit(y, i)]), LAMBDA s :
        NatNorm([i \in 1..Len(s) |-> (s[i] + NatCarry(s, i)) % NatBase])))

\* a - b, for a >= b.  The digits are subtracted one by one, and the i-th
\* digit lends one to a negative difference below it, through differences
\* of 0.
NatBorrow(d, i) ==
    IF \E j \in 1..(i - 1) :
           /\ d[j] < 0
           /\ \A k \in (j + 1)..(i - 1) : d[k] = 0
    THEN 1 ELSE 0

NatSub(a, b) ==
    Let2(a, b, LAMBDA x, y :
    Let(Digits([i \in 1..Len(x) |-> x[i] - NatDigit(y, i)]), LAMBDA d :
        NatNorm([i \in 1..Len(d) |->
                    (d[i] - NatBorrow(d, i) + NatBase) % NatBase])))

\* -1, 0 or 1 as a < b, a = b or a > b.
NatCmp(a, b) ==
    Let2(a, b, LAMBDA x, y :
        IF Len(x) < Len(y) THEN 0 - 1
        ELSE IF Len(x) > Len(y) THEN 1
        ELSE LET top == LastThat([i \in 1..Len(x) |-> x[i] # y[i]],
                                 1, Len(x))
             IN  IF top = 0 THEN 0
                 ELSE IF x[top] < y[top] THEN 0 - 1
                 ELSE 1)

\* a * NatBase^k
NatShiftDigits(a, k) ==
    Let(a, LAMBDA x : IF x = <<>> THEN <<>> ELSE [i \in 1..k |-> 0] \o x)

\* a * k, for one digit k: the low digits of the products, plus their high
\* digits one place up.
NatMulDigit(a, k) ==
    Let2(a, k, LAMBDA x, d :
        NatAdd([i \in 1..Len(x) |-> (x[i] * d) % NatBase],
               <<0>> \o [i \in 1..Len(x) |-> (x[i] * d) \div NatBase]))

\* a * b: a times each digit of b, at the place of the digit.
NatMul(a, b) ==
    Let2(a, b, LAMBDA x, y :
        Steps(1, Len(y), <<>>, LAMBDA i, p :
            NatAdd(p, NatShiftDigits(NatMulDigit(x, y[i]), i - 1))))

\* a * 2^bits
NatShl(a, bits) ==
    NatShiftDigits(NatMulDigit(a, 2 ^ (bits % 15)), bits \div 15)

\* a \div 2^bits
NatShr(a, bits) ==
    Let2(a, bits, LAMBDA x, n :
        LET skip == n \div 15
            low  == 2 ^ (n % 15)
        IN  IF skip >= Len(x) THEN <<>>
            ELSE NatNorm([i \in 1..(Len(x) - skip) |->
                             x[i + skip] \div low
                             + (NatDigit(x, i + skip + 1) % low)
                               * (NatBase \div low)]))

\* The number of bits of one digit n.
BitLen(n) == Cardinality({k \in 0..14 : 2 ^ k <= n})

\* The number of bits of a.
NatBitLen(a) ==
    Let(a, LAMBDA x :
        IF x = <<>> THEN 0 ELSE 15 * (Len(x) - 1) + BitLen(x[Len(x)]))

\* The bit of a of weight 2^k.
NatBit(a, k) ==
    Let2(a, k, LAMBDA x, n : (NatDigit(x, n \div 15 + 1) \div 2 ^ (n % 15)) % 2)

\* The digit r \div b, for r < b * NatBase and b whose top digit is
\* NatBase \div 2 or more: the top two digits of r divided by the top digit
\* of b are the digit or at most two more.
NatQuotientDigit(r, b) ==
    Let(IF (NatDigit(r, Len(b) + 1) * NatBase + NatDigit(r, Len(b)))
               \div b[Len(b)] > NatBase - 1
        THEN NatBase - 1
        ELSE (NatDigit(r, Len(b) + 1) * NatBase + NatDigit(r, Len(b)))
                 \div b[Len(b)], LAMBDA est :
        IF NatCmp(NatMulDigit(b, est), r) <= 0 THEN est
        ELSE IF NatCmp(NatMulDigit(b, est - 1), r) <= 0 THEN est - 1
        ELSE est - 2)

\* One step of the long division by b: p is the quotient and the remainder
\* of the digits above the digit, which is divided with that remainder.
NatDivStep(digit, b, p) ==
    Let(NatAdd(NatShiftDigits(p[2], 1), <<digit>>), LAMBDA r :
    Let(NatQuotientDigit(r, b), LAMBDA q :
        <<<<q>> \o p[1], NatSub(r, NatMulDigit(b, q))>>))

\* <<a \div b, a % b>>, for b > 0, by long division from the top digit of a
\* down: both are shifted to bring the top digit of b to NatBase \div 2 or
\* more, as NatQuotientDigit takes it, which leaves the quotient as it is.
NatDivMod(a, b) ==
    Let2(a, b, LAMBDA x, y :
    Let(15 - BitLen(y[Len(y)]), LAMBDA bits :
    Let2(NatShl(x, bits), NatShl(y, bits), LAMBDA n, d :
    Let(Steps(1, Len(n), <<<<>>, <<>>>>, LAMBDA i, p :
              NatDivStep(n[Len(n) + 1 - i], d, p)), LAMBDA qr :
        <<NatNorm(qr[1]), NatShr(qr[2], bits)>>))))

(***************************************************************************)
(* The type int: 64 bits, two's complement.  The ints of most objects stay *)
(* small and are written as integers of TLC, whose arithmetic is then that *)
(* of the program.  Where the program's ints can reach the ends of the     *)
(* type (Fibonacci, strconv.Atoi) an int is written as its sign and its    *)
(* magnitude, and a result is wrapped around to 64 bits.                   *)
(***************************************************************************)
\* The integer of sign neg and magnitude mag; there is one zero.
BigInt(neg, mag) ==
    Let(mag, LAMBDA m : [neg |-> neg /\ m # <<>>, mag |-> m])

\* The int n.
IntOf(n) == BigInt(n < 0, NatOf(IF n < 0 THEN 0 - n ELSE n))

\* a + b, exactly.
BigAdd(a, b) ==
    Let2(a, b, LAMBDA x, y :
        IF x.neg = y.neg THEN BigInt(x.neg, NatAdd(x.mag, y.mag))
        ELSE IF NatCmp(x.mag, y.mag) >= 0
        THEN BigInt(x.neg, NatSub(x.mag, y.mag))
        ELSE BigInt(y.neg, NatSub(y.mag, x.mag)))

\* -a
BigNeg(a) == Let(a, LAMBDA x : BigInt(~x.neg, x.mag))

\* a < b
BigLess(a, b) ==
    Let2(a, b, LAMBDA x, y :
        IF x.neg /\ ~y.neg THEN TRUE
        ELSE IF ~x.neg /\ y.neg THEN FALSE
        ELSE IF x.neg THEN NatCmp(x.mag, y.mag) > 0
        ELSE NatCmp(x.mag, y.mag) < 0)

\* math.MinInt64 and math.MaxInt64, the least and the greatest int.
MinInt == BigInt(TRUE, NatShl(<<1>>, 63))

MaxInt == BigInt(FALSE, NatSub(NatShl(<<1>>, 63), <<1>>))

\* The 64 low bits of the natural number a: four digits of 15 bits and
\* four bits of the fifth.
Low64(a) ==
    Let(a, LAMBDA x :
        NatNorm([i \in 1..5 |->
                    IF i < 5 THEN NatDigit(x, i) ELSE NatDigit(x, i) % 2 ^ 4]))

\* The int that the 64 low bits of the integer x are: the wrap-around of a
\* result that overflows.
WrapInt(x) ==
    Let2(x.neg, Low64(x.mag), LAMBDA neg, low :
    Let(IF neg /\ low # <<>> THEN NatSub(NatShl(<<1>>, 64), low) ELSE low,
        LAMBDA bits :
        IF NatBit(bits, 63) = 1
        THEN BigInt(TRUE, NatSub(NatShl(<<1>>, 64), bits))
        ELSE BigInt(FALSE, bits)))

\* a + b of two ints
IntAdd(a, b) == Let2(a, b, LAMBDA x, y : WrapInt(BigAdd(x, y)))

\* a - b of two ints
IntSub(a, b) == Let2(a, b, LAMBDA x, y : WrapInt(BigAdd(x, BigNeg(y))))

\* a <= b of two ints
IntLessEq(a, b) == ~BigLess(b, a)

(***************************************************************************)
(* solutions (01-basics): Fibonacci, run one step at a time.               *)
(***************************************************************************)
\* No run of Fibonacci.
Fibonacci_Idle ==
    [pc |-> "idle", n |-> IntOf(0), i |-> IntOf(0), prev |-> IntOf(0),
     curr |-> IntOf(0), ret |-> IntOf(0)]

\* Fibonacci(n) was called.
Fibonacci_Called(n) == [Fibonacci_Idle EXCEPT !.pc = "start", !.n = n]

\* n == 0 || n == 1, the arguments of the base cases.
Fibonacci_IsBase(f) == f.n = IntOf(0) \/ f.n = IntOf(1)

\* if n == 0 { return 0 }; if n == 1 { return 1 }
Fibonacci_Base(f) == [f EXCEPT !.pc = "done", !.ret = f.n]

\* prev, curr := 0, 1; i := 2
Fibonacci_Enter(f) ==
    [f EXCEPT !.pc = "loop", !.prev = IntOf(0), !.curr = IntOf(1),
              !.i = IntOf(2)]

\* The loop condition, i <= n.
Fibonacci_Continues(f) == IntLessEq(f.i, f.n)

\* prev, curr = curr, prev+curr; i++
Fibonacci_Iterate(f) ==
    [f EXCEPT !.prev = f.curr,
              !.curr = IntAdd(f.prev, f.curr),
              !.i = IntAdd(f.i, IntOf(1))]

\* return curr
Fibonacci_Return(f) == [f EXCEPT !.pc = "done", !.ret = f.curr]

\* The 64 bits of the int x, read as a natural number.
Uint64Of(x) ==
    Let(x, LAMBDA v :
        IF v.neg THEN NatSub(NatShl(<<1>>, 64), v.mag) ELSE v.mag)

\* <<F(2j), F(2j+1)>> modulo 2^64 from p = <<F(j), F(j+1)>>:
\* F(2j) = F(j) * (2 * F(j+1) - F(j)), F(2j+1) = F(j)^2 + F(j+1)^2.
FibLow64Twice(p) ==
    Let(p, LAMBDA q :
        <<Low64(NatMul(q[1], NatSub(NatAdd(NatMulDigit(q[2], 2),
                                           NatShl(<<1>>, 64)),
                                    q[1]))),
          Low64(NatAdd(NatMul(q[1], q[1]), NatMul(q[2], q[2])))>>)

\* <<F(j+1), F(j+2)>> modulo 2^64 from p = <<F(j), F(j+1)>>.
FibLow64Next(p) == Let(p, LAMBDA q : <<q[2], Low64(NatAdd(q[1], q[2]))>>)

\* <<F(m), F(m+1)>> modulo 2^64 for the natural number m, from its bits,
\* the top one first: the pair of the number that the bits read so far
\* make is doubled, and moved on by one when the next bit is 1.
FibLow64(m) ==
    Let(m, LAMBDA x :
        Steps(1, NatBitLen(x), <<<<>>, <<1>>>>, LAMBDA i, p :
            IF NatBit(x, NatBitLen(x) - i) = 0 THEN FibLow64Twice(p)
            ELSE FibLow64Next(FibLow64Twice(p))))

\* m > 0 iterations of the loop at once, none of which ends it: prev and
\* curr move m places along the sequence, in 64-bit arithmetic, and i is
\* m greater.
Fibonacci_IterateTimes(f, m) ==
    Let2(FibLow64(m), <<Uint64Of(f.prev), Uint64Of(f.curr)>>, LAMBDA q, p :
    Let(Low64(NatSub(NatAdd(q[2], NatShl(<<1>>, 64)), q[1])), LAMBDA q0 :
        [f EXCEPT
            !.prev = WrapInt(BigInt(FALSE,
                         NatAdd(NatMul(q0, p[1]), NatMul(q[1], p[2])))),
            !.curr = WrapInt(BigInt(FALSE,
                         NatAdd(NatMul(q[1], p[1]), NatMul(q[2], p[2])))),
            !.i = WrapInt(BigAdd(f.i, BigInt(FALSE, m)))]))

(***************************************************************************)
(* solutions (01-basics): FindMax, ReverseSlice, FilterEvens               *)
(***************************************************************************)
\* a % b of Go for b > 0: the remainder has the sign of a.
GoRem(a, b) == IF a >= 0 THEN a % b ELSE 0 - ((0 - a) % b)

\* for _, n := range numbers { if n > max { max = n } }, from index i on.
RECURSIVE FindMaxLoop(_, _, _)
FindMaxLoop(elems, i, max) ==
    IF i > Len(elems) THEN max
    ELSE FindMaxLoop(elems, i + 1, IF elems[i] > max THEN elems[i] ELSE max)

\* func FindMax(numbers []int) int of the exercise: max := 0.
Exercise_FindMax(numbers) ==
    IF Len(numbers.elems) = 0 THEN 0
    ELSE FindMaxLoop(numbers.elems, 1, 0)

\* A plausible slip, the one planted in the exercise: max starts at 0.
FindMax_FromZero(numbers) ==
    IF Len(numbers.elems) = 0 THEN 0
    ELSE FindMaxLoop(numbers.elems, 1, 0)

\* func FindMax(numbers []int) int
FindMax(numbers) ==
    IF Len(numbers.elems) = 0 THEN 0
    ELSE FindMaxLoop(numbers.elems, 1, numbers.elems[1])

\* A plausible slip, the one planted in the exercise: numbers[i] = numbers[j]
\* without the other half of the swap.
Swap_Half(elems, i, j) == [elems EXCEPT ![i + 1] = elems[j + 1]]

\* numbers[i], numbers[j] = numbers[j], numbers[i], with i and j the Go
\* (0-based) indices.
Swap(elems, i, j) ==
    [elems EXCEPT ![i + 1] = elems[j + 1], ![j + 1] = elems[i + 1]]

\* for i := 0; i < len(numbers)/2; i++ { j := len(numbers) - 1 - i; swap }
RECURSIVE ReverseLoop(_, _)
ReverseLoop(elems, i) ==
    IF ~(i < Len(elems) \div 2) THEN elems
    ELSE LET j == Len(elems) - 1 - i
         IN  ReverseLoop(Swap(elems, i, j), i + 1)

\* func ReverseSlice(numbers []int) []int: the elements are swapped in the
\* caller's array, and the slice returned is the argument.
ReverseSlice(numbers) == [numbers EXCEPT !.elems = ReverseLoop(@, 0)]

\* for _, n := range numbers { if n%2 == 0 { result = append(result, n) } },
\* from index i on.
RECURSIVE FilterEvensLoop(_, _, _)
FilterEvensLoop(elems, i, result) ==
    IF i > Len(elems) THEN result
    ELSE FilterEvensLoop(elems, i + 1,
                         IF GoRem(elems[i], 2) = 0
                         THEN SliceAppend(result, elems[i])
                         ELSE result)

\* A plausible slip, the one planted in the exercise: n%2 != 0 keeps the
\* odd numbers.
RECURSIVE FilterOddsLoop(_, _, _)
FilterOddsLoop(elems, i, result) ==
    IF i > Len(elems) THEN result
    ELSE FilterOddsLoop(elems, i + 1,
                        IF GoRem(elems[i], 2) # 0
                        THEN SliceAppend(result, elems[i])
                        ELSE result)

FilterEvens_Odds(numbers) == FilterOddsLoop(numbers.elems, 1, EmptySlice)

\* func FilterEvens(numbers []int) []int
FilterEvens(numbers) == FilterEvensLoop(numbers.elems, 1, EmptySlice)

(***************************************************************************)
(* float64: IEEE 754 binary64 with round-to-nearest-even.  A finite value  *)
(* is (-1)^neg * m * 2^e, where m has 53 bits (fewer only for e = -1074,   *)
(* the subnormal numbers) and zero has m = 0 and e = 0; the other values   *)
(* are the two infinities and NaN.  Every operation computes the exact     *)
(* result and rounds it.                                                   *)
(***************************************************************************)
Float64(neg, m, e) == [class |-> "finite", neg |-> neg, m |-> m, e |-> e]

Float64Inf(neg) == [class |-> "inf", neg |-> neg, m |-> <<>>, e |-> 0]

Float64NaN == [class |-> "nan", neg |-> FALSE, m |-> <<>>, e |-> 0]

Float64IsZero(a) == a.class = "finite" /\ a.m = <<>>

\* The float64 whose value is exactly m * 2^e, for m of at most 54 bits
\* with e >= -1074: the representation is made the canonical one, and a
\* value beyond math.MaxFloat64 is an infinity.
Float64Pack(neg, m, e) ==
    Let2(m, NatBitLen(m), LAMBDA x, len :
        IF x = <<>> THEN Float64(neg, <<>>, 0)
        ELSE IF len > 53
        THEN IF e + 1 + 53 > 1024 THEN Float64Inf(neg)
             ELSE Float64(neg, NatShr(x, 1), e + 1)
        ELSE IF len + e > 1024 THEN Float64Inf(neg)
        ELSE LET up == IF 53 - len < e + 1074 THEN 53 - len ELSE e + 1074
             IN  Float64(neg, NatShl(x, up), e - up))

\* The float64 nearest to m * 2^e (plus, when sticky, a positive amount
\* below 2^e), ties going to the even mantissa.
Float64Round(neg, m, e, sticky) ==
    Let2(m, NatBitLen(m) - 53, LAMBDA x, over :
        LET under == (0 - 1074) - e
            most  == IF over > under THEN over ELSE under
            drop  == IF most > 0 THEN most ELSE 0
            half  == drop > 0 /\ NatBit(x, drop - 1) = 1
            below == \/ sticky
                     \/ drop > 1
                        /\ NatShl(NatShr(x, drop - 1), drop - 1) # x
        IN  Let2(NatShr(x, drop), e + drop, LAMBDA kept, exp :
                IF half /\ (below \/ NatBit(kept, 0) = 1)
                THEN Float64Pack(neg, NatAdd(kept, <<1>>), exp)
                ELSE Float64Pack(neg, kept, exp)))

\* float64(i), for an integer i of TLC
Float(i) ==
    Float64Round(i < 0, NatOf(IF i < 0 THEN 0 - i ELSE i), 0, FALSE)

\* The float64 nearest to n / d, for natural numbers n and d > 0.
Float64Ratio(neg, n, d) ==
    LET short == 55 + NatBitLen(d) - NatBitLen(n)
        k     == IF short > 0 THEN short ELSE 0
    IN  IF n = <<>> THEN Float64(neg, <<>>, 0)
        ELSE Let(NatDivMod(NatShl(n, k), d), LAMBDA qr :
                 Float64Round(neg, qr[1], 0 - k, qr[2] # <<>>))

\* The constant n/d (0.5 is FloatOf(1, 2)) as a float64, for d > 0.
FloatOf(n, d) ==
    Float64Ratio(n < 0, NatOf(IF n < 0 THEN 0 - n ELSE n), NatOf(d))

\* a + b of two finite values
Float64Sum(a, b) ==
    LET e == IF a.e < b.e THEN a.e ELSE b.e
    IN  Let2(NatShl(a.m, a.e - e), NatShl(b.m, b.e - e), LAMBDA ma, mb :
            IF a.neg = b.neg
            THEN Float64Round(a.neg, NatAdd(ma, mb), e, FALSE)
            ELSE Let(NatCmp(ma, mb), LAMBDA c :
                     IF c = 0 THEN Float64(FALSE, <<>>, 0)
                     ELSE IF c > 0
                     THEN Float64Round(a.neg, NatSub(ma, mb), e, FALSE)
                     ELSE Float64Round(b.neg, NatSub(mb, ma), e, FALSE)))

\* a + b
FloatAdd(a, b) ==
    Let2(a, b, LAMBDA x, y :
        IF x.class = "nan" \/ y.class = "nan" THEN Float64NaN
        ELSE IF x.class = "inf" /\ y.class = "inf"
        THEN IF x.neg = y.neg THEN x ELSE Float64NaN
        ELSE IF x.class = "inf" THEN x
        ELSE IF y.class = "inf" THEN y
        ELSE Float64Sum(x, y))

\* a * b
FloatMul(a, b) ==
    Let2(a, b, LAMBDA x, y :
        IF x.class = "nan" \/ y.class = "nan" THEN Float64NaN
        ELSE IF x.class = "inf" \/ y.class = "inf"
        THEN IF Float64IsZero(x) \/ Float64IsZero(y) THEN Float64NaN
             ELSE Float64Inf(x.neg # y.neg)
        ELSE Float64Round(x.neg # y.neg, NatMul(x.m, y.m), x.e + y.e, FALSE))

\* a / b
FloatDiv(a, b) ==
    Let2(a, b, LAMBDA x, y :
        IF x.class = "nan" \/ y.class = "nan" THEN Float64NaN
        ELSE IF x.class = "inf"
        THEN IF y.class = "inf" THEN Float64NaN ELSE Float64Inf(x.neg # y.neg)
        ELSE IF y.class = "inf" THEN Float64(x.neg # y.neg, <<>>, 0)
        ELSE IF Float64IsZero(y)
        THEN IF Float64IsZero(x) THEN Float64NaN ELSE Float64Inf(x.neg # y.neg)
        ELSE IF Float64IsZero(x) THEN Float64(x.neg # y.neg, <<>>, 0)
        ELSE LET short == 55 + NatBitLen(y.m) - NatBitLen(x.m)
                 k     == IF short > 0 THEN short ELSE 0
             IN  Let(NatDivMod(NatShl(x.m, k), y.m), LAMBDA qr :
                     Float64Round(x.neg # y.neg, qr[1], x.e - y.e - k,
                                  qr[2] # <<>>)))

\* |a| < |b| of two finite values
Float64MagLess(a, b) ==
    IF b.m = <<>> THEN FALSE
    ELSE IF a.m = <<>> THEN TRUE
    ELSE IF NatBitLen(a.m) + a.e # NatBitLen(b.m) + b.e
    THEN NatBitLen(a.m) + a.e < NatBitLen(b.m) + b.e
    ELSE LET e == IF a.e < b.e THEN a.e ELSE b.e
         IN  NatCmp(NatShl(a.m, a.e - e), NatShl(b.m, b.e - e)) < 0

\* a < b
FloatLess(a, b) ==
    Let2(a, b, LAMBDA x, y :
        IF x.class = "nan" \/ y.class = "nan" THEN FALSE
        ELSE IF Float64IsZero(x) /\ Float64IsZero(y) THEN FALSE
        ELSE IF x.neg # y.neg THEN x.neg
        ELSE IF x.class = "inf" \/ y.class = "inf"
        THEN IF x.neg THEN x.class = "inf" /\ y.class # "inf"
             ELSE y.class = "inf" /\ x.class # "inf"
        ELSE IF x.neg THEN Float64MagLess(y, x)
        ELSE Float64MagLess(x, y))

\* a == b
FloatEq(a, b) ==
    Let2(a, b, LAMBDA x, y :
        /\ x.class # "nan" /\ y.class # "nan"
        /\ ~FloatLess(x, y) /\ ~FloatLess(y, x))

\* math.Pi = 3.14159265358979323846264338327950288419716939937510582097494459
\* as a float64, the nearest to the constant: 7074237752028440 * 2^-51
\* (0x400921FB54442D18).
Pi ==
    Float64(FALSE,
            NatAdd(NatMul(NatOf(70742377), NatOf(100000000)), NatOf(52028440)),
            0 - 51)

\* math.MaxFloat64 = 0x1p1023 * (1 + (1 - 0x1p-52))
MaxFloat64 == Float64(FALSE, NatSub(NatShl(<<1>>, 53), <<1>>), 971)

(***************************************************************************)
(* solutions.Shape and the types that implement it.  A Shape holds its     *)
(* dynamic type and the fields of the struct, in the order of declaration. *)
(***************************************************************************)
\* The nil Shape.
NilShape == [type |-> "nil", fields |-> <<>>]

\* Circle{Radius: r}
Circle(Radius) == [type |-> "Circle", fields |-> <<Radius>>]

\* Square{Side: s}
Square(Side) == [type |-> "Square", fields |-> <<Side>>]

\* Triangle{Base: b, Height: h}
Triangle(Base, Height) == [type |-> "Triangle", fields |-> <<Base, Height>>]

\* Ellipse{MajorAxis: a, MinorAxis: b}
Ellipse(MajorAxis, MinorAxis) ==
    [type |-> "Ellipse", fields |-> <<MajorAxis, MinorAxis>>]

\* math.Pi * c.Radius * c.Radius
Circle_Area(c) == FloatMul(FloatMul(Pi, c.fields[1]), c.fields[1])

\* s.Side * s.Side
Square_Area(s) == FloatMul(s.fields[1], s.fields[1])

\* 0.5 * t.Base * t.Height
Triangle_Area(t) == FloatMul(FloatMul(FloatOf(1, 2), t.fields[1]), t.fields[2])

\* math.Pi * e.MajorAxis * e.MinorAxis
Ellipse_Area(e) == FloatMul(FloatMul(Pi, e.fields[1]), e.fields[2])

\* s.Area() on the nil Shape has no method to run: a nil pointer
\* dereference, and the call panics.
Shape_AreaPanics(s) == s.type = "nil"

\* s.Area() of a Shape that is not nil, dispatched on the dynamic type of s.
Shape_Area(s) ==
    CASE s.type = "Circle" -> Circle_Area(s)
      [] s.type = "Square" -> Square_Area(s)
      [] s.type = "Triangle" -> Triangle_Area(s)
      [] s.type = "Ellipse" -> Ellipse_Area(s)

\* Area() panics on some shape of elems.
SomeAreaPanics(elems) == \E i \in 1..Len(elems) : Shape_AreaPanics(elems[i])

\* The exercise's loop: if i > 0 { largest = shapes[i] }, from index i on.
RECURSIVE FindLargestShapeLoop_Last(_, _, _)
FindLargestShapeLoop_Last(elems, i, largest) ==
    IF i > Len(elems) THEN largest
    ELSE FindLargestShapeLoop_Last(elems, i + 1, elems[i])

\* for i := 1; i < len(shapes); i++ { if area > largestArea { ... } },
\* from the (1-based) index i on.
RECURSIVE FindLargestShapeLoop(_, _, _, _)
FindLargestShapeLoop(elems, i, largest, largestArea) ==
    IF i > Len(elems) THEN largest
    ELSE Let(Shape_Area(elems[i]), LAMBDA area :
             IF FloatLess(largestArea, area)
             THEN FindLargestShapeLoop(elems, i + 1, elems[i], area)
             ELSE FindLargestShapeLoop(elems, i + 1, largest, largestArea))

\* The exercise's FindLargestShape, which returns the last shape.
FindLargestShape_Last(shapes) ==
    IF Len(shapes.elems) = 0 THEN Ok(shapes, <<NilShape>>)
    ELSE Ok(shapes,
            <<FindLargestShapeLoop_Last(shapes.elems, 2, shapes.elems[1])>>)

\* FindLargestShape(shapes): Area() is called on every shape of a slice
\* that is not empty.
FindLargestShape(shapes) ==
    IF Len(shapes.elems) = 0 THEN Ok(shapes, <<NilShape>>)
    ELSE IF SomeAreaPanics(shapes.elems) THEN Panic(shapes)
    ELSE Let(Shape_Area(shapes.elems[1]), LAMBDA largestArea :
             Ok(shapes,
                <<FindLargestShapeLoop(shapes.elems, 2, shapes.elems[1],
                                       largestArea)>>))

\* The exercise's CompareShapes, with the results reversed.
CompareShapes_Reversed(s1, s2) ==
    IF SomeAreaPanics(<<s1, s2>>) THEN Panic(<<s1, s2>>)
    ELSE Let2(Shape_Area(s1), Shape_Area(s2), LAMBDA area1, area2 :
             IF FloatLess(area1, area2) THEN Ok(<<s1, s2>>, <<1>>)
             ELSE IF FloatLess(area2, area1) THEN Ok(<<s1, s2>>, <<0 - 1>>)
             ELSE Ok(<<s1, s2>>, <<0>>))

\* CompareShapes(s1, s2)
CompareShapes(s1, s2) ==
    IF SomeAreaPanics(<<s1, s2>>) THEN Panic(<<s1, s2>>)
    ELSE Let2(Shape_Area(s1), Shape_Area(s2), LAMBDA area1, area2 :
             IF FloatLess(area1, area2) THEN Ok(<<s1, s2>>, <<0 - 1>>)
             ELSE IF FloatLess(area2, area1) THEN Ok(<<s1, s2>>, <<1>>)
             ELSE Ok(<<s1, s2>>, <<0>>))

\* ShapeStats{}
ShapeStats_Zero ==
    [Count |-> 0, TotalArea |-> Float(0), MinArea |-> Float(0),
     MaxArea |-> Float(0), AvgArea |-> Float(0)]

\* for _, shape := range shapes { ... }, from the (1-based) index i on.
RECURSIVE CalculateStatsLoop(_, _, _)
CalculateStatsLoop(elems, i, stats) ==
    IF i > Len(elems) THEN stats
    ELSE Let2(stats, Shape_Area(elems[i]), LAMBDA st, area :
             CalculateStatsLoop(elems, i + 1,
                 [st EXCEPT
                     !.TotalArea = FloatAdd(@, area),
                     !.MinArea = IF FloatLess(area, @) THEN area ELSE @,
                     !.MaxArea = IF FloatLess(@, area) THEN area ELSE @]))

\* CalculateStats(shapes)
CalculateStats(shapes) ==
    IF Len(shapes.elems) = 0 THEN Ok(shapes, <<ShapeStats_Zero>>)
    ELSE IF SomeAreaPanics(shapes.elems) THEN Panic(shapes)
    ELSE Let(CalculateStatsLoop(shapes.elems, 1,
                 [ShapeStats_Zero EXCEPT !.Count = Len(shapes.elems),
                                         !.MinArea = MaxFloat64,
                                         !.MaxArea = Float(0)]),
             LAMBDA stats :
                 Ok(shapes,
                    <<[stats EXCEPT
                          !.AvgArea = FloatDiv(stats.TotalArea,
                                               Float(Len(shapes.elems)))]>>))

(***************************************************************************)
(* solutions.ConvertToInt, with strconv.Atoi and fmt.Errorf as it uses     *)
(* them.                                                                   *)
(***************************************************************************)
\* []int{} held in an interface{}.
VIntSlice == [VNil EXCEPT !.type = "[]int"]

\* %q of a string without characters to escape.
Quote(s) == "\"" \o s \o "\""

\* %T of v.
TypeOf(v) == IF v.type = "nil" THEN "<nil>" ELSE v.type

\* ch - '0' for the byte c: above 9 for every byte that is not a digit.
Digit(c) ==
    CASE c = "0" -> 0 [] c = "1" -> 1 [] c = "2" -> 2 [] c = "3" -> 3
      [] c = "4" -> 4 [] c = "5" -> 5 [] c = "6" -> 6 [] c = "7" -> 7
      [] c = "8" -> 8 [] c = "9" -> 9 [] OTHER -> 10

\* math.MaxUint64
MaxUint64 == NatSub(NatShl(<<1>>, 64), <<1>>)

\* The byte c read after the number r.n: reading has stopped with the
\* error r.err at a byte that is not a digit and at a number that does not
\* fit 64 bits.
AtoiDigit(c, r) ==
    Let(NatAdd(NatMulDigit(r.n, 10), NatOf(Digit(c))), LAMBDA n1 :
        IF r.err # "" THEN r
        ELSE IF Digit(c) > 9 THEN [err |-> "invalid syntax", n |-> <<>>]
        ELSE IF NatCmp(n1, MaxUint64) > 0
        THEN [err |-> "value out of range", n |-> MaxUint64]
        ELSE [err |-> "", n |-> n1])

\* The number read from the digits s, one byte after the other.
AtoiDigits(s) ==
    Steps(1, Len(s), [err |-> "", n |-> <<>>], LAMBDA i, r :
        AtoiDigit(SubSeq(s, i, i), r))

\* The *strconv.NumError of Atoi on s.
NumError(s, why) ==
    Errorf("strconv.Atoi: parsing " \o Quote(s) \o ": " \o why)

\* strconv.Atoi(s): an optional sign and at least one decimal digit; a
\* number that does not fit the int is out of range, and the int returned
\* with that error is the nearest one.
Atoi(s) ==
    LET signed == Len(s) > 0 /\ SubSeq(s, 1, 1) \in {"+", "-"}
        digits == IF signed THEN SubSeq(s, 2, Len(s)) ELSE s
        read   == AtoiDigits(digits)
        neg    == signed /\ SubSeq(s, 1, 1) = "-"
        cutoff == NatShl(<<1>>, 63)
    IN  IF Len(digits) = 0 \/ read.err = "invalid syntax"
        THEN <<IntOf(0), NumError(s, "invalid syntax")>>
        ELSE IF ~neg /\ NatCmp(read.n, cutoff) >= 0
        THEN <<MaxInt, NumError(s, "value out of range")>>
        ELSE IF neg /\ NatCmp(read.n, cutoff) > 0
        THEN <<MinInt, NumError(s, "value out of range")>>
        ELSE <<BigInt(neg, read.n), ErrNil>>

\* int(val) for a float64 held in halves: the fraction is dropped.
IntOfFloat64(f) == IF f >= 0 THEN f \div 2 ELSE 0 - ((0 - f) \div 2)

\* The exercise's ConvertToInt: the error of Atoi is dropped and a value of
\* another type gives (0, nil).
ConvertToInt_NoErrors(v) ==
    CASE v.type = "int" -> <<IntOf(v.i), ErrNil>>
      [] v.type = "float64" -> <<IntOf(IntOfFloat64(v.f)), ErrNil>>
      [] v.type = "string" -> <<Atoi(v.s)[1], ErrNil>>
      [] v.type = "bool" ->
            IF v.b THEN <<IntOf(1), ErrNil>> ELSE <<IntOf(0), ErrNil>>
      [] OTHER -> <<IntOf(0), ErrNil>>

\* ConvertToInt(v): the int returned is written as its sign and
\* magnitude.
ConvertToInt(v) ==
    CASE v.type = "int" -> <<IntOf(v.i), ErrNil>>
      [] v.type = "float64" -> <<IntOf(IntOfFloat64(v.f)), ErrNil>>
      [] v.type = "string" ->
            LET result == Atoi(v.s)[1]
                err == Atoi(v.s)[2]
            IN  IF ~err.nil
                THEN <<IntOf(0),
                       Errorf("cannot convert string " \o Quote(v.s)
                              \o " to int: " \o err.msg)>>
                ELSE <<result, ErrNil>>
      [] v.type = "bool" ->
            IF v.b THEN <<IntOf(1), ErrNil>> ELSE <<IntOf(0), ErrNil>>
      [] OTHER ->
            <<IntOf(0),
              Errorf("cannot convert type " \o TypeOf(v) \o " to int")>>

(***************************************************************************)
(* solutions.Filter                                                        *)
(***************************************************************************)
\* The exercise's loop: for "int" and "string" the assertion v.(T) is not
\* checked and panics on a value of another type; the other type names
\* have no case.  The result is the outcome of the loop from the (1-based)
\* index i on.
RECURSIVE FilterLoop_Unchecked(_, _, _, _)
FilterLoop_Unchecked(elems, i, typeName, result) ==
    IF i > Len(elems) THEN Ok(elems, <<result>>)
    ELSE IF typeName \in {"int", "string"}
         THEN IF AssertOk(elems[i], typeName)
              THEN FilterLoop_Unchecked(elems, i + 1, typeName,
                                        SliceAppend(result, elems[i]))
              ELSE Panic(elems)
         ELSE FilterLoop_Unchecked(elems, i + 1, typeName, result)

\* for _, v := range values { switch typeName { ... } }, from the
\* (1-based) index i on: v is appended when typeName has a case and
\* v.(T) succeeds.
RECURSIVE FilterLoop(_, _, _, _)
FilterLoop(elems, i, typeName, result) ==
    IF i > Len(elems) THEN result
    ELSE IF /\ typeName \in {"int", "string", "float64", "bool"}
            /\ AssertOk(elems[i], typeName)
         THEN FilterLoop(elems, i + 1, typeName,
                         SliceAppend(result, elems[i]))
         ELSE FilterLoop(elems, i + 1, typeName, result)

\* The exercise's Filter.
Filter_Unchecked(values, typeName) ==
    FilterLoop_Unchecked(values.elems, 1, typeName, EmptySlice)

\* Filter(values, typeName): the values are left as they were.
Filter(values, typeName) ==
    Ok(values.elems, <<FilterLoop(values.elems, 1, typeName, EmptySlice)>>)

(***************************************************************************)
(* The pipeline of the concurrency README: generator(nums...) feeding      *)
(* square over unbuffered channels, consumed by the range loop of          *)
(* usePipeline.  A run holds the position and local variable of the three  *)
(* goroutines and the state of the two channels; a send on an unbuffered   *)
(* channel and the receive that takes it are one step.                     *)
(***************************************************************************)
\* No run of the pipeline.
Pipeline_Idle ==
    [nums |-> <<>>,
     main |-> [pc |-> "idle", result |-> 0],
     gen |-> [pc |-> "none", i |-> 0],
     sq |-> [pc |-> "none", n |-> 0],
     genOut |-> [made |-> FALSE, closed |-> FALSE],
     sqOut |-> [made |-> FALSE, closed |-> FALSE]]

\* usePipeline is about to evaluate square(generator(nums...)).
Pipeline_Called(nums) ==
    [Pipeline_Idle EXCEPT !.nums = nums, !.main.pc = "generator"]

\* generator: out := make(chan int); go func() {...}(); return out
Generator_Call(p) ==
    [p EXCEPT !.genOut.made = TRUE, !.gen = [pc |-> "range", i |-> 1],
              !.main.pc = "square"]

\* square: out := make(chan int); go func() {...}(); return out
Square_Call(p) ==
    [p EXCEPT !.sqOut.made = TRUE, !.sq.pc = "range", !.main.pc = "range"]

\* for _, n := range nums: the next number, or the end of the loop.
Generator_Range(p) ==
    IF p.gen.i <= Len(p.nums)
    THEN [p EXCEPT !.gen.pc = "send"]
    ELSE [p EXCEPT !.gen.pc = "close"]

\* out <- n in generator can proceed: square is at its receive.
Generator_CanSend(p) ==
    /\ p.gen.pc = "send"
    /\ p.sq.pc = "range"
    /\ ~p.genOut.closed

\* out <- n in generator, taken by `for n := range in' of square.
Generator_Send(p) ==
    [p EXCEPT !.gen = [pc |-> "range", i |-> p.gen.i + 1],
              !.sq = [pc |-> "send", n |-> p.nums[p.gen.i]]]

\* A plausible slip: the generator returns without close(out).
Generator_Close_Forgotten(p) == [p EXCEPT !.gen.pc = "done"]

\* close(out) in generator, and the goroutine exits.
Generator_Close(p) ==
    [p EXCEPT !.genOut.closed = TRUE, !.gen.pc = "done"]

\* `for n := range in' of square finds the channel closed and empty.
Square_RangeEnds(p) == [p EXCEPT !.sq.pc = "close"]

\* out <- n * n in square can proceed: the consumer is at its receive.
Square_CanSend(p) ==
    /\ p.sq.pc = "send"
    /\ p.main.pc = "range"
    /\ ~p.sqOut.closed

\* out <- n * n in square, taken by the range loop of usePipeline.
Square_Send(p) ==
    [p EXCEPT !.sq.pc = "range",
              !.main = [pc |-> "print", result |-> p.sq.n * p.sq.n]]

\* close(out) in square, and the goroutine exits.
Square_Close(p) ==
    [p EXCEPT !.sqOut.closed = TRUE, !.sq.pc = "done"]

\* fmt.Println(result) is done; back to the range.
UsePipeline_Printed(p) == [p EXCEPT !.main.pc = "range"]

\* The range loop of usePipeline finds the channel closed and empty.
UsePipeline_RangeEnds(p) == [p EXCEPT !.main.pc = "done"]

(***************************************************************************)
(* examples.Closures: every call makes a new variable counter and returns  *)
(* a function that captures it.  The closures made so far are kept in a    *)
(* sequence, each with the variable it captured.                           *)
(***************************************************************************)
\* counter := 0; return func() int {...}: the closures with the new one.
Closures(cs) ==
    LET made == Append(cs, [counter |-> 0])
    IN  Ok(made, <<Len(made)>>)

\* A plausible slip: counter is one variable shared by all the closures.
Closure_Call_Shared(cs, id) ==
    LET after == [i \in DOMAIN cs |->
                     [cs[i] EXCEPT !.counter = @ + 1]]
    IN  Ok(after, <<after[id].counter>>)

\* counter++; return counter, in the closure numbered id.
Closure_Call(cs, id) ==
    LET after == [cs EXCEPT ![id].counter = @ + 1]
    IN  Ok(after, <<after[id].counter>>)

(***************************************************************************)
(* examples.Account as a Model, and ProcessModel.  Balance is a float64    *)
(* held in halves (Balance = -3 is -1.5).  A Model of another type is a    *)
(* value whose Validate and Save return the errors it holds.               *)
(***************************************************************************)
\* Account{Base: Base{ID: id}, Balance: balance} held in a Model.
ModelAccount(id, balance) ==
    [type |-> "Account", ID |-> id, Balance |-> balance,
     validate |-> ErrNil, save |-> ErrNil]

\* A Model whose Validate returns the error validate and whose Save returns
\* the error save.
OtherModel(validate, save) ==
    [type |-> "other", ID |-> 0, Balance |-> 0,
     validate |-> validate, save |-> save]

Abs(x) == IF x < 0 THEN 0 - x ELSE x

\* %.2f of a float64 held in halves.
FormatHalves(f) ==
    (IF f < 0 THEN "-" ELSE "") \o ToString(Abs(f) \div 2) \o
    (IF Abs(f) % 2 = 1 THEN ".50" ELSE ".00")

\* func (a Account) Validate() error
Account_Validate(a) ==
    IF a.Balance < 0
    THEN Ok(a, <<Errorf("balance cannot be negative")>>)
    ELSE Ok(a, <<ErrNil>>)

\* func (a Account) Save() error
Account_Save(a) ==
    Printed(Ok(a, <<ErrNil>>),
            <<"Saving account " \o ToString(a.ID) \o " with balance "
              \o FormatHalves(a.Balance)>>)

\* m.Validate(), dispatched on the dynamic type of m.
Model_Validate(m) ==
    IF m.type = "Account" THEN Account_Validate(m) ELSE Ok(m, <<m.validate>>)

\* m.Save(), dispatched on the dynamic type of m.
Model_Save(m) ==
    IF m.type = "Account" THEN Account_Save(m) ELSE Ok(m, <<m.save>>)

\* A plausible slip: the return after the validation error is missing, so
\* the model is saved all the same.
ProcessModel_NoReturn(m) ==
    LET validate == Model_Validate(m)
        save == Model_Save(m)
        called == <<Call("Validate", <<m>>, validate.rets),
                    Call("Save", <<m>>, save.rets)>>
        reported ==
            IF ~validate.rets[1].nil
            THEN <<"Validation error: " \o validate.rets[1].msg>>
            ELSE <<>>
    IN  IF ~save.rets[1].nil
        THEN Printed(Ok(called, <<>>),
                     reported \o save.out
                         \o <<"Save error: " \o save.rets[1].msg>>)
        ELSE Printed(Ok(called, <<>>),
                     reported \o save.out
                         \o <<"Model processed successfully">>)

\* func ProcessModel(m Model): the outcome holds, as self, the calls made
\* on m, in order.
ProcessModel(m) ==
    LET validate == Model_Validate(m)
        save == Model_Save(m)
    IN  IF ~validate.rets[1].nil
        THEN Printed(Ok(<<Call("Validate", <<m>>, validate.rets)>>, <<>>),
                     <<"Validation error: " \o validate.rets[1].msg>>)
        ELSE LET called == <<Call("Validate", <<m>>, validate.rets),
                             Call("Save", <<m>>, save.rets)>>
             IN  IF ~save.rets[1].nil
                 THEN Printed(Ok(called, <<>>),
                              save.out
                                  \o <<"Save error: " \o save.rets[1].msg>>)
                 ELSE Printed(Ok(called, <<>>),
                              save.out \o <<"Model processed successfully">>)

(***************************************************************************)
(* exercises.Cache and exercises.Counter, as shipped.                      *)
(***************************************************************************)
\* func (c *Cache) Get(key string) (interface{}, bool): the map is indexed
\* without a check; indexing a nil map reads as indexing an empty one.
Exercise_Cache_Get(c, key) == Ok(c, MapIndex(c.data, key, VNil))

\* func (c *Cache) Set(key string, value interface{}): the map is assigned
\* to without a check; assigning to a nil map panics.
Exercise_Cache_Set(c, key, value) ==
    IF c.data.nil
    THEN Panic(c)
    ELSE Ok([c EXCEPT !.data = MapAssign(c.data, key, value)], <<>>)

\* func (c Counter) Increment() { c.count++ }: the receiver is a copy, and
\* c is the counter of the caller after the call.
Exercise_Counter_Increment(c) ==
    LET copy == [c EXCEPT !.count = @ + 1]
    IN  c

\* func (c Counter) Value() int { return c.count }
Exercise_Counter_Value(c) == c.count

\* func (c Counter) Reset() { c.count = 0 }: the receiver is a copy.
Exercise_Counter_Reset(c) ==
    LET copy == [c EXCEPT !.count = 0]
    IN  c

(***************************************************************************)
(* solutions.DeferStatement, a statement at a time.  The frame of a call   *)
(* holds the position in the body and the deferred calls not yet run, the  *)
(* last registered at the end.                                             *)
(***************************************************************************)
\* The statements of the body, in order.
DeferStatement_Body ==
    <<[stmt |-> "Println", arg |-> "Start"],
      [stmt |-> "defer", arg |-> "Deferred 1"],
      [stmt |-> "defer", arg |-> "Deferred 2"],
      [stmt |-> "defer", arg |-> "Deferred 3"],
      [stmt |-> "Println", arg |-> "Middle"],
      [stmt |-> "Println", arg |-> "End"]>>

\* No call of DeferStatement is running.
DeferStatement_Idle == [pc |-> 0, deferred |-> <<>>]

\* DeferStatement() was called.
DeferStatement_Called == [pc |-> 1, deferred |-> <<>>]

\* The frame is at a statement of the body.
DeferStatement_InBody(f) == f.pc \in 1..Len(DeferStatement_Body)

\* The statement at f.pc: fmt.Println(arg) prints a line, defer
\* fmt.Println(arg) registers the call with its argument.
DeferStatement_Step(f) ==
    LET s == DeferStatement_Body[f.pc]
    IN  IF s.stmt = "defer"
        THEN Ok([f EXCEPT !.pc = @ + 1, !.deferred = Append(@, s.arg)],
                <<>>)
        ELSE Printed(Ok([f EXCEPT !.pc = @ + 1], <<>>), <<s.arg>>)

\* A plausible slip: the deferred calls run in the order they were
\* registered.
DeferStatement_RunDeferred_FIFO(f) ==
    Printed(Ok([f EXCEPT !.deferred = Tail(@)], <<>>), <<Head(f.deferred)>>)

\* The function returns: the deferred call registered last runs and leaves
\* the frame.
DeferStatement_RunDeferred(f) ==
    Printed(Ok([f EXCEPT !.deferred = SubSeq(@, 1, Len(@) - 1)], <<>>),
            <<f.deferred[Len(f.deferred)]>>)

\* func AlternativeFibonacciRecursive(n int) int
RECURSIVE AlternativeFibonacciRecursive(_)
AlternativeFibonacciRecursive(n) ==
    IF IntLessEq(n, IntOf(1)) THEN n
    ELSE IntAdd(AlternativeFibonacciRecursive(IntSub(n, IntOf(1))),
                AlternativeFibonacciRecursive(IntSub(n, IntOf(2))))

(***************************************************************************)
(* solutions.Max                                                           *)
(***************************************************************************)
\* for i := 1; i < len(values); i++ { if val, ok := values[i].(int); ok
\* { if val > max { max = val } } }, from the (1-based) index i on.
RECURSIVE MaxLoop(_, _, _)
MaxLoop(elems, i, max) ==
    IF i > Len(elems) THEN max
    ELSE IF AssertOk(elems[i], "int") /\ elems[i].i > max
         THEN MaxLoop(elems, i + 1, elems[i].i)
         ELSE MaxLoop(elems, i + 1, max)

\* func Max(values []interface{}) interface{}
Max(values) ==
    IF Len(values.elems) = 0 THEN Ok(values, <<VNil>>)
    ELSE IF ~AssertOk(values.elems[1], "int") THEN Ok(values, <<VNil>>)
    ELSE Ok(values, <<VInt(MaxLoop(values.elems, 2, values.elems[1].i))>>)

(***************************************************************************)
(* solutions.CachedDatabase: a Database and a Cache embedded by value,     *)
(* whose methods are promoted to the CachedDatabase.                       *)
(***************************************************************************)
\* A plausible slip: the map of the cache is not made.
NewCachedDatabase_NoCache(connStr, logger) ==
    [Database |-> Database(logger, connStr, FALSE), Cache |-> Cache_Zero]

\* func NewCachedDatabase(connStr string, logger Logger) *CachedDatabase
NewCachedDatabase(connStr, logger) ==
    [Database |-> Database(logger, connStr, FALSE), Cache |-> Cache_Made]

\* The outcome of a method promoted from the embedded field: r is the
\* outcome of the method on the field, and rest the CachedDatabase with
\* that field replaced.
Promoted(r, rest) == [r EXCEPT !.self = rest]

\* d.Connect(): Database.Connect on the embedded Database.
CachedDatabase_Connect(d) ==
    LET r == Database_Connect(d.Database)
    IN  Promoted(r, [d EXCEPT !.Database = r.self])

\* d.Close(): Database.Close on the embedded Database.
CachedDatabase_Close(d) ==
    LET r == Database_Close(d.Database)
    IN  Promoted(r, [d EXCEPT !.Database = r.self])

\* d.Log(message): Log of the Logger embedded in the embedded Database.
CachedDatabase_Log(d, message) ==
    LET r == Database_Log(d.Database, message)
    IN  Promoted(r, [d EXCEPT !.Database = r.self])

\* d.LogError(err): LogError of the Logger embedded in the embedded
\* Database.
CachedDatabase_LogError(d, err) ==
    LET r == Database_LogError(d.Database, err)
    IN  Promoted(r, [d EXCEPT !.Database = r.self])

\* d.Get(key): Cache.Get on the embedded Cache.
CachedDatabase_Get(d, key) ==
    LET r == Cache_Get(d.Cache, key)
    IN  Promoted(r, [d EXCEPT !.Cache = r.self])

\* d.Set(key, value): Cache.Set on the embedded Cache.
CachedDatabase_Set(d, key, value) ==
    LET r == Cache_Set(d.Cache, key, value)
    IN  Promoted(r, [d EXCEPT !.Cache = r.self])

(***************************************************************************)
(* The state of the objects a scenario does not use, and the start of      *)
(* every run: the clock at 0, no call made, nothing printed.               *)
(***************************************************************************)
Started ==
    /\ now = 0
    /\ calls = <<>>
    /\ stdout = <<>>
    /\ panicked = FALSE

IdleCounter == counter = Counter_Zero

IdleCache == cache = Cache_Zero

IdleTypeSafeMap == tsm = NewTypeSafeMap

IdleDatabase == db = Database(NilLogger, "", FALSE)

IdleAccount == account = NewAccount(0, "", "")

IdleService == service = NewService("")

IdleFileHandler == fh = FileHandler("")

IdleMergeMaps ==
    /\ map1 = NilMap
    /\ map2 = NilMap
    /\ merged = NilMap

IdlePure ==
    /\ fnArgs = <<>>
    /\ fnRets = <<>>

IdleFibonacci == fib = Fibonacci_Idle

IdlePipeline == pipe = Pipeline_Idle

IdleClosures == closures = <<>>

IdleDeferStatement == frame = DeferStatement_Idle

IdleCachedDatabase == cdb = NewCachedDatabase("", NilLogger)

(***************************************************************************)
(* Calls on a Counter.                                                     *)
(***************************************************************************)
CounterOthers ==
    <<cdb, frame, closures, pipe, fnArgs, fnRets, fib,
      cache, tsm, db, account, service, fh, map1, map2, merged, now,
      stdout, panicked>>

CallCounterIncrement ==
    /\ Len(calls) < MaxCounterCalls
    /\ counter' = Counter_Increment(counter)
    /\ Record("Increment", <<>>, <<>>)
    /\ UNCHANGED CounterOthers

CallCounterValue ==
    /\ Len(calls) < MaxCounterCalls
    /\ Record("Value", <<>>, <<Counter_Value(counter)>>)
    /\ UNCHANGED <<counter, CounterOthers>>

CallCounterReset ==
    /\ Len(calls) < MaxCounterCalls
    /\ counter' = Counter_Reset(counter)
    /\ Record("Reset", <<>>, <<>>)
    /\ UNCHANGED CounterOthers

InitCounter ==
    /\ Started
    /\ IdleCachedDatabase
    /\ IdleDeferStatement
    /\ IdleClosures
    /\ IdlePipeline
    /\ counter = Counter_Zero
    /\ IdleCache /\ IdleTypeSafeMap /\ IdleDatabase /\ IdleAccount
    /\ IdleService /\ IdleFileHandler /\ IdleMergeMaps
    /\ IdlePure /\ IdleFibonacci

NextCounter ==
    \/ CallCounterIncrement
    \/ CallCounterValue
    \/ CallCounterReset

SpecCounter == InitCounter /\ [][NextCounter]_vars

\* The number of Increment calls in the history h after its last Reset.
RECURSIVE IncrementsSinceReset(_)
IncrementsSinceReset(h) ==
    IF h = <<>> THEN 0
    ELSE LET last == h[Len(h)]
             rest == SubSeq(h, 1, Len(h) - 1)
         IN  IF last.op = "Reset" THEN 0
             ELSE IF last.op = "Increment" THEN IncrementsSinceReset(rest) + 1
             ELSE IncrementsSinceReset(rest)

\* C1: every Value() call returned the number of Increment calls made since
\* the most recent Reset before it (since creation when there was none), and
\* the counter holds that number now.
C1_CounterCountsIncrements ==
    /\ counter.count = IncrementsSinceReset(calls)
    /\ \A i \in 1..Len(calls) :
          calls[i].op = "Value" =>
              calls[i].rets = <<IncrementsSinceReset(Before(i))>>

\* Increment, Reset, Increment, Increment, Value: Value returned 2.
C1_Witness ==
    /\ Len(calls) >= 5
    /\ calls[Len(calls)].op = "Value"
    /\ calls[Len(calls)].rets = <<2>>
    /\ \E i \in 1..Len(calls) :
          /\ calls[i].op = "Reset"
          /\ \E j \in 1..(i - 1) : calls[j].op = "Increment"

(***************************************************************************)
(* Calls on a Cache that starts with a made map or as the zero value.      *)
(***************************************************************************)
CacheKeys == {"key1", "key2"}

CacheValues == {VString("value1"), VInt(1), VNil}

CacheOthers ==
    <<cdb, frame, closures, pipe, fnArgs, fnRets, fib,
      counter, tsm, db, account, service, fh, map1, map2, merged, now,
      stdout>>

CallCacheGet ==
    /\ ~panicked
    /\ Len(calls) < MaxCacheCalls
    /\ \E key \in CacheKeys :
          LET r == Cache_Get(cache, key)
          IN  /\ cache' = r.self
              /\ panicked' = r.panic
              /\ Record("Get", <<key>>, r.rets)
    /\ UNCHANGED CacheOthers

CallCacheSet ==
    /\ ~panicked
    /\ Len(calls) < MaxCacheCalls
    /\ \E key \in CacheKeys, value \in CacheValues :
          LET r == Cache_Set(cache, key, value)
          IN  /\ cache' = r.self
              /\ panicked' = r.panic
              /\ Record("Set", <<key, value>>, r.rets)
    /\ UNCHANGED CacheOthers

InitCache ==
    /\ Started
    /\ IdleCachedDatabase
    /\ IdleDeferStatement
    /\ IdleClosures
    /\ IdlePipeline
    /\ cache \in {Cache_Zero, Cache_Made}
    /\ IdleCounter /\ IdleTypeSafeMap /\ IdleDatabase /\ IdleAccount
    /\ IdleService /\ IdleFileHandler /\ IdleMergeMaps
    /\ IdlePure /\ IdleFibonacci

NextCache ==
    \/ CallCacheGet
    \/ CallCacheSet

SpecCache == InitCache /\ [][NextCache]_vars

\* The indices of the Set calls on key k in the history h.
SetsOf(h, k) == {j \in 1..Len(h) : h[j].op = "Set" /\ h[j].args[1] = k}

\* The largest element of a non-empty set of numbers.
Last(S) == CHOOSE j \in S : \A x \in S : x <= j

\* C2: no call panics, and every Get(k) returned (v, true) with v the value
\* of the most recent Set(k, v) before it, or (nil, false) when k was never
\* Set before it; whether the cache started with a made map or a nil one.
C2_CacheGetReturnsLastSet ==
    /\ ~panicked
    /\ \A i \in 1..Len(calls) :
          calls[i].op = "Get" =>
              LET k == calls[i].args[1]
                  S == SetsOf(Before(i), k)
              IN  IF S = {}
                  THEN calls[i].rets = <<VNil, FALSE>>
                  ELSE calls[i].rets = <<calls[Last(S)].args[2], TRUE>>

\* key1 was Set twice, to different values, and then read; key2, never Set,
\* was read too.
C2_Witness ==
    /\ Len(calls) = 4
    /\ calls[1].op = "Set" /\ calls[1].args = <<"key1", VInt(1)>>
    /\ calls[2].op = "Set" /\ calls[2].args = <<"key1", VString("value1")>>
    /\ calls[3].op = "Get" /\ calls[3].args = <<"key1">>
    /\ calls[3].rets = <<VString("value1"), TRUE>>
    /\ calls[4].op = "Get" /\ calls[4].args = <<"key2">>
    /\ calls[4].rets = <<VNil, FALSE>>
    /\ cache.data.kv = [k \in {"key1"} |-> VString("value1")]

(***************************************************************************)
(* Calls on a TypeSafeMap from NewTypeSafeMap.                             *)
(***************************************************************************)
TypeSafeMapKeys == {"key1", "key2"}

TypeSafeMapValues ==
    {VString("Alice"), VInt(42), VFloat64(3), VBool(TRUE), VNil}

TypeNames == {"string", "int", "float64", "bool", "[]int"}

TypeSafeMapOthers ==
    <<cdb, frame, closures, pipe, fnArgs, fnRets, fib,
      counter, cache, db, account, service, fh, map1, map2, merged, now,
      stdout>>

\* One call on the map: its outcome r becomes the new state.
TypeSafeMapCall(op, args, r) ==
    /\ tsm' = r.self
    /\ panicked' = r.panic
    /\ Record(op, args, r.rets)
    /\ UNCHANGED TypeSafeMapOthers

CallTypeSafeMapSet ==
    /\ ~panicked
    /\ Len(calls) < MaxTypeSafeMapCalls
    /\ \E key \in TypeSafeMapKeys, value \in TypeSafeMapValues :
          TypeSafeMapCall("Set", <<key, value>>,
                          TypeSafeMap_Set(tsm, key, value))

CallTypeSafeMapGetString ==
    /\ ~panicked
    /\ Len(calls) < MaxTypeSafeMapCalls
    /\ \E key \in TypeSafeMapKeys :
          TypeSafeMapCall("GetString", <<key>>,
                          TypeSafeMap_GetString(tsm, key))

CallTypeSafeMapGetInt ==
    /\ ~panicked
    /\ Len(calls) < MaxTypeSafeMapCalls
    /\ \E key \in TypeSafeMapKeys :
          TypeSafeMapCall("GetInt", <<key>>, TypeSafeMap_GetInt(tsm, key))

CallTypeSafeMapContains ==
    /\ ~panicked
    /\ Len(calls) < MaxTypeSafeMapCalls
    /\ \E key \in TypeSafeMapKeys :
          TypeSafeMapCall("Contains", <<key>>,
                          TypeSafeMap_Contains(tsm, key))

CallTypeSafeMapCount ==
    /\ ~panicked
    /\ Len(calls) < MaxTypeSafeMapCalls
    /\ \E typeName \in TypeNames :
          TypeSafeMapCall("Count", <<typeName>>,
                          TypeSafeMap_Count(tsm, typeName))

InitTypeSafeMap ==
    /\ Started
    /\ IdleCachedDatabase
    /\ IdleDeferStatement
    /\ IdleClosures
    /\ IdlePipeline
    /\ tsm = NewTypeSafeMap
    /\ IdleCounter /\ IdleCache /\ IdleDatabase /\ IdleAccount
    /\ IdleService /\ IdleFileHandler /\ IdleMergeMaps
    /\ IdlePure /\ IdleFibonacci

NextTypeSafeMap ==
    \/ CallTypeSafeMapSet
    \/ CallTypeSafeMapGetString
    \/ CallTypeSafeMapGetInt
    \/ CallTypeSafeMapContains
    \/ CallTypeSafeMapCount

SpecTypeSafeMap == InitTypeSafeMap /\ [][NextTypeSafeMap]_vars

\* Whether key k was Set in the history h.
WasSet(h, k) == SetsOf(h, k) # {}

\* The value of the most recent Set of key k in the history h.
LastSet(h, k) == h[Last(SetsOf(h, k))].args[2]

\* C3: every Contains(key) returned true if and only if Set had been called
\* with that key before, whatever value was stored (nil included).
C3_ContainsIffSet ==
    \A i \in 1..Len(calls) :
        calls[i].op = "Contains" =>
            calls[i].rets = <<WasSet(Before(i), calls[i].args[1])>>

\* Set(key2, nil) and then Contains(key2) = true, Contains(key1) = false.
C3_Witness ==
    /\ Len(calls) = 3
    /\ calls[1].op = "Set" /\ calls[1].args = <<"key2", VNil>>
    /\ calls[2].op = "Contains" /\ calls[2].args = <<"key2">>
    /\ calls[2].rets = <<TRUE>>
    /\ calls[3].op = "Contains" /\ calls[3].args = <<"key1">>
    /\ calls[3].rets = <<FALSE>>

\* C4: GetString and GetInt never panic; GetString(key) returned the stored
\* value when the key's current value is a string and "" when the key is
\* absent or holds a value of another type (nil included); GetInt(key)
\* returned the stored value when it is an int and 0 otherwise.
C4_GettersAreSafe ==
    /\ ~panicked
    /\ \A i \in 1..Len(calls) :
          LET k == calls[i].args[1]
              h == Before(i)
          IN  /\ calls[i].op = "GetString" =>
                    calls[i].rets =
                        <<IF WasSet(h, k) /\ LastSet(h, k).type = "string"
                          THEN LastSet(h, k).s ELSE "">>
              /\ calls[i].op = "GetInt" =>
                    calls[i].rets =
                        <<IF WasSet(h, k) /\ LastSet(h, k).type = "int"
                          THEN LastSet(h, k).i ELSE 0>>

\* Set(key1, 42), then GetString(key1) = "" (wrong type) and GetInt(key1) = 42.
C4_Witness ==
    /\ Len(calls) = 3
    /\ calls[1].op = "Set" /\ calls[1].args = <<"key1", VInt(42)>>
    /\ calls[2].op = "GetString" /\ calls[2].args = <<"key1">>
    /\ calls[2].rets = <<"">>
    /\ calls[3].op = "GetInt" /\ calls[3].args = <<"key1">>
    /\ calls[3].rets = <<42>>
    /\ ~panicked

\* The keys whose current value, after the history h, has dynamic type T.
KeysOfType(h, T) ==
    {k \in TypeSafeMapKeys : WasSet(h, k) /\ LastSet(h, k).type = T}

\* C5: Count never panics; every Count(typeName) returned the number of
\* distinct keys whose current value has dynamic type typeName, for
\* "string", "int", "float64" and "bool", and 0 for any other typeName.
C5_CountByType ==
    /\ ~panicked
    /\ \A i \in 1..Len(calls) :
          calls[i].op = "Count" =>
              LET T == calls[i].args[1]
              IN  calls[i].rets =
                      <<IF T \in {"string", "int", "float64", "bool"}
                        THEN Cardinality(KeysOfType(Before(i), T))
                        ELSE 0>>

\* key1 was overwritten with a value of another type; Count("string")
\* counts it no more.
C5_Witness ==
    /\ Len(calls) = 3
    /\ calls[1].op = "Set" /\ calls[1].args = <<"key1", VString("Alice")>>
    /\ calls[2].op = "Set" /\ calls[2].args = <<"key1", VFloat64(3)>>
    /\ calls[3].op = "Count" /\ calls[3].args = <<"string">>
    /\ calls[3].rets = <<0>>

(***************************************************************************)
(* Connect, Close, Log and LogError calls on a Database, with or without   *)
(* a Logger.                                                               *)
(***************************************************************************)
DatabaseOthers ==
    <<cdb, frame, closures, pipe, fnArgs, fnRets, fib,
      counter, cache, tsm, account, service, fh, map1, map2, merged, now>>

\* The messages and the errors that are logged directly.
LogMessages == {"test message"}

LogErrors == {ErrNil, Errorf("test error")}

\* One call on the database: its outcome r becomes the new state.
DatabaseCall(op, args, r) ==
    /\ db' = r.self
    /\ stdout' = stdout \o r.out
    /\ panicked' = r.panic
    /\ Record(op, args, r.rets)
    /\ UNCHANGED DatabaseOthers

CallDatabaseConnect ==
    /\ ~panicked
    /\ Len(calls) < MaxDatabaseCalls
    /\ DatabaseCall("Connect", <<>>, Database_Connect(db))

CallDatabaseClose ==
    /\ ~panicked
    /\ Len(calls) < MaxDatabaseCalls
    /\ DatabaseCall("Close", <<>>, Database_Close(db))

CallDatabaseLog ==
    /\ ~panicked
    /\ Len(calls) < MaxDatabaseCalls
    /\ \E message \in LogMessages :
          DatabaseCall("Log", <<message>>, Database_Log(db, message))

CallDatabaseLogError ==
    /\ ~panicked
    /\ Len(calls) < MaxDatabaseCalls
    /\ \E err \in LogErrors :
          DatabaseCall("LogError", <<err>>, Database_LogError(db, err))

InitDatabase ==
    /\ Started
    /\ IdleCachedDatabase
    /\ IdleDeferStatement
    /\ IdleClosures
    /\ IdlePipeline
    /\ db \in {Database(logger, "test://localhost", connected) :
                  logger \in {NilLogger, SimpleLogger("DB")},
                  connected \in BOOLEAN}
    /\ IdleCounter /\ IdleCache /\ IdleTypeSafeMap /\ IdleAccount
    /\ IdleService /\ IdleFileHandler /\ IdleMergeMaps
    /\ IdlePure /\ IdleFibonacci

NextDatabase ==
    \/ CallDatabaseConnect
    \/ CallDatabaseClose
    \/ CallDatabaseLog
    \/ CallDatabaseLogError

SpecDatabase == InitDatabase /\ [][NextDatabase]_vars

IsConnectOrClose(c) == c.op \in {"Connect", "Close"}

\* The Connect and Close calls of the history h, in call order.
Connections(h) == SelectSeq(h, IsConnectOrClose)

\* C6: on a Database with a non-nil Logger no call panics, every Connect and
\* Close returned a nil error, and Connected is true exactly when the last
\* of the Connect and Close calls was a Connect (false when it was a
\* Close), whatever was logged directly in between.
C6_ConnectedFollowsLastCall ==
    db.Logger.type # "nil" =>
        /\ ~panicked
        /\ \A i \in 1..Len(calls) :
              IsConnectOrClose(calls[i]) => calls[i].rets = <<ErrNil>>
        /\ Connections(calls) # <<>> =>
              db.Connected =
                  (Connections(calls)[Len(Connections(calls))].op = "Connect")

\* Connect, Close, Connect, Close on a database with a logger: all four
\* were logged and the database is disconnected.
C6_Witness ==
    /\ db.Logger.type # "nil"
    /\ Len(calls) = 4
    /\ calls[1].op = "Connect" /\ calls[2].op = "Close"
    /\ calls[3].op = "Connect" /\ calls[4].op = "Close"
    /\ Len(stdout) = 4
    /\ stdout[4] = "[DB] Database closed"
    /\ ~db.Connected

(***************************************************************************)
(* UpdateEmail, AuditLog and Touch calls on an Account from NewAccount,    *)
(* while the clock advances.                                               *)
(***************************************************************************)
Emails == {"newemail@example.com", "alice@example.org"}

AccountOthers ==
    <<cdb, frame, closures, pipe, fnArgs, fnRets, fib,
      counter, cache, tsm, db, service, fh, map1, map2, merged, stdout,
      panicked>>

\* The clock advances.
Tick ==
    /\ now < MaxTime
    /\ now' = now + 1
    /\ UNCHANGED <<account, calls, AccountOthers>>

CallAccountUpdateEmail ==
    /\ Len(calls) < MaxAccountCalls
    /\ \E email \in Emails :
          /\ account' = Account_UpdateEmail(account, email)
          /\ Record("UpdateEmail", <<email>>, <<>>)
    /\ UNCHANGED <<now, AccountOthers>>

CallAccountAuditLog ==
    /\ Len(calls) < MaxAccountCalls
    /\ Record("AuditLog", <<>>, <<Account_AuditLog(account)>>)
    /\ UNCHANGED <<account, now, AccountOthers>>

CallAccountTouch ==
    /\ Len(calls) < MaxAccountCalls
    /\ account' = Account_Touch(account)
    /\ Record("Touch", <<>>, <<>>)
    /\ UNCHANGED <<now, AccountOthers>>

InitAccount ==
    /\ Started
    /\ IdleCachedDatabase
    /\ IdleDeferStatement
    /\ IdleClosures
    /\ IdlePipeline
    /\ account = NewAccount(1, "alice", "alice@example.com")
    /\ IdleCounter /\ IdleCache /\ IdleTypeSafeMap /\ IdleDatabase
    /\ IdleService /\ IdleFileHandler /\ IdleMergeMaps
    /\ IdlePure /\ IdleFibonacci

NextAccount ==
    \/ Tick
    \/ CallAccountUpdateEmail
    \/ CallAccountAuditLog
    \/ CallAccountTouch

SpecAccount == InitAccount /\ [][NextAccount]_vars

IsUpdateEmail(c) == c.op = "UpdateEmail"

\* The UpdateEmail calls of the history h, in call order.
Updates(h) == SelectSeq(h, IsUpdateEmail)

\* The audit entries that the history h calls for: one per UpdateEmail, in
\* call order, each naming the email passed.
ExpectedAudit(h) ==
    [i \in 1..Len(Updates(h)) |-> "Email updated to " \o Updates(h)[i].args[1]]

\* C7: after n UpdateEmail calls the audit log is non-nil and has exactly n
\* entries, in call order, the i-th naming the i-th email passed (so entries
\* are only appended, never changed or removed); every AuditLog() call
\* returned that log; Email is the last email passed; and when the last
\* call was an UpdateEmail, UpdatedAt is the clock's reading at that call.
C7_AuditLogFollowsUpdates ==
    /\ ~account.auditLog.nil
    /\ account.auditLog.elems = ExpectedAudit(calls)
    /\ \A i \in 1..Len(calls) :
          calls[i].op = "AuditLog" =>
              /\ ~calls[i].rets[1].nil
              /\ calls[i].rets[1].elems = ExpectedAudit(Before(i))
    /\ Updates(calls) # <<>> =>
          LET last == Updates(calls)[Len(Updates(calls))]
          IN  /\ account.Email = last.args[1]
              /\ IsUpdateEmail(calls[Len(calls)]) =>
                    account.Timestamped.UpdatedAt = last.at

\* Two UpdateEmail calls with different emails at different times, the
\* second after the account was created, and an AuditLog call between them.
C7_Witness ==
    /\ Len(calls) = 3
    /\ calls[1].op = "UpdateEmail" /\ calls[3].op = "UpdateEmail"
    /\ calls[2].op = "AuditLog" /\ Len(calls[2].rets[1].elems) = 1
    /\ calls[1].args # calls[3].args
    /\ calls[1].at < calls[3].at
    /\ account.Timestamped.CreatedAt < account.Timestamped.UpdatedAt
    /\ Len(account.auditLog.elems) = 2
    /\ account.auditLog.elems[2] = "Email updated to alice@example.org"

(***************************************************************************)
(* Calls of Start and of the promoted Value, Increment, Reset, Log and     *)
(* LogError on a Service from NewService.                                  *)
(***************************************************************************)
ServiceNames == {"test-service", "api"}

ServiceOthers ==
    <<cdb, frame, closures, pipe, fnArgs, fnRets, fib,
      counter, cache, tsm, db, account, fh, map1, map2, merged, now>>

\* One call on the service: its outcome r becomes the new state.
ServiceCall(op, args, r) ==
    /\ service' = r.self
    /\ stdout' = stdout \o r.out
    /\ panicked' = r.panic
    /\ Record(op, args, r.rets)
    /\ UNCHANGED ServiceOthers

CallServiceStart ==
    /\ ~panicked
    /\ Len(calls) < MaxServiceCalls
    /\ ServiceCall("Start", <<>>, Service_Start(service))

CallServiceValue ==
    /\ ~panicked
    /\ Len(calls) < MaxServiceCalls
    /\ ServiceCall("Value", <<>>, Service_Value(service))

CallServiceIncrement ==
    /\ ~panicked
    /\ Len(calls) < MaxServiceCalls
    /\ ServiceCall("Increment", <<>>, Service_Increment(service))

CallServiceReset ==
    /\ ~panicked
    /\ Len(calls) < MaxServiceCalls
    /\ ServiceCall("Reset", <<>>, Service_Reset(service))

CallServiceLog ==
    /\ ~panicked
    /\ Len(calls) < MaxServiceCalls
    /\ \E message \in LogMessages :
          ServiceCall("Log", <<message>>, Service_Log(service, message))

CallServiceLogError ==
    /\ ~panicked
    /\ Len(calls) < MaxServiceCalls
    /\ \E err \in LogErrors :
          ServiceCall("LogError", <<err>>, Service_LogError(service, err))

InitService ==
    /\ Started
    /\ IdleCachedDatabase
    /\ IdleDeferStatement
    /\ IdleClosures
    /\ IdlePipeline
    /\ service \in {NewService(name) : name \in ServiceNames}
    /\ IdleCounter /\ IdleCache /\ IdleTypeSafeMap /\ IdleDatabase
    /\ IdleAccount /\ IdleFileHandler /\ IdleMergeMaps
    /\ IdlePure /\ IdleFibonacci

NextService ==
    \/ CallServiceStart
    \/ CallServiceValue
    \/ CallServiceIncrement
    \/ CallServiceReset
    \/ CallServiceLog
    \/ CallServiceLogError

SpecService == InitService /\ [][NextService]_vars

IsStart(c) == c.op = "Start"

\* The number of Start calls in the history h.
Starts(h) == Len(SelectSeq(h, IsStart))

\* The count was changed in the history h by nothing but Start.
OnlyStarted(h) ==
    \A i \in 1..Len(h) : h[i].op \notin {"Increment", "Reset"}

\* C8: a Service from NewService has a non-nil Logger, so no Start panics,
\* and every Value() returned the number of Start calls made before it
\* (as long as Increment and Reset were not called on the service
\* directly).
C8_ServiceCountsStarts ==
    /\ service.Logger.type # "nil"
    /\ ~panicked
    /\ \A i \in 1..Len(calls) :
          (calls[i].op = "Value" /\ OnlyStarted(Before(i))) =>
              calls[i].rets = <<Starts(Before(i))>>

\* Three Start calls, all logged, and then Value() = 3.
C8_Witness ==
    /\ Len(calls) = 4
    /\ \A i \in 1..3 : calls[i].op = "Start"
    /\ calls[4].op = "Value" /\ calls[4].rets = <<3>>
    /\ Len(stdout) = 3
    /\ stdout[1] = "[api] Starting service: api"

(***************************************************************************)
(* Write, Read and Close calls on a FileHandler held in a ReadWriteCloser. *)
(***************************************************************************)
FileData == {"", "Hello, Go!", "Updated data"}

FileHandlerOthers ==
    <<cdb, frame, closures, pipe, fnArgs, fnRets, fib,
      counter, cache, tsm, db, account, service, map1, map2, merged, now>>

\* One call on the handler: its outcome r becomes the new state.
FileHandlerCall(op, args, r) ==
    /\ fh' = r.self
    /\ stdout' = stdout \o r.out
    /\ panicked' = r.panic
    /\ Record(op, args, r.rets)
    /\ UNCHANGED FileHandlerOthers

CallFileHandlerWrite ==
    /\ Len(calls) < MaxFileHandlerCalls
    /\ \E data \in FileData :
          FileHandlerCall("Write", <<data>>, FileHandler_Write(fh, data))

CallFileHandlerRead ==
    /\ Len(calls) < MaxFileHandlerCalls
    /\ FileHandlerCall("Read", <<>>, FileHandler_Read(fh))

CallFileHandlerClose ==
    /\ Len(calls) < MaxFileHandlerCalls
    /\ FileHandlerCall("Close", <<>>, FileHandler_Close(fh))

InitFileHandler ==
    /\ Started
    /\ IdleCachedDatabase
    /\ IdleDeferStatement
    /\ IdleClosures
    /\ IdlePipeline
    /\ fh = FileHandler("data.txt")
    /\ IdleCounter /\ IdleCache /\ IdleTypeSafeMap /\ IdleDatabase
    /\ IdleAccount /\ IdleService /\ IdleMergeMaps
    /\ IdlePure /\ IdleFibonacci

NextFileHandler ==
    \/ CallFileHandlerWrite
    \/ CallFileHandlerRead
    \/ CallFileHandlerClose

SpecFileHandler == InitFileHandler /\ [][NextFileHandler]_vars

\* The indices of the Write calls in the history h.
WritesOf(h) == {j \in 1..Len(h) : h[j].op = "Write"}

\* C9: every Read returned the argument of the most recent Write before it
\* (the empty string when nothing was written yet), also after a Close, and
\* every Close returned a nil error.
C9_ReadReturnsLastWrite ==
    \A i \in 1..Len(calls) :
        /\ calls[i].op = "Read" =>
              calls[i].rets =
                  <<IF WritesOf(Before(i)) = {} THEN ""
                    ELSE calls[Last(WritesOf(Before(i)))].args[1]>>
        /\ calls[i].op = "Close" => calls[i].rets = <<ErrNil>>

\* Write, Write of something else, Close, and then Read returned the second
\* Write's data.
C9_Witness ==
    /\ Len(calls) = 4
    /\ calls[1].op = "Write" /\ calls[1].args = <<"Hello, Go!">>
    /\ calls[2].op = "Write" /\ calls[2].args = <<"Updated data">>
    /\ calls[3].op = "Close" /\ calls[3].rets = <<ErrNil>>
    /\ calls[4].op = "Read" /\ calls[4].rets = <<"Updated data">>
    /\ stdout = <<"Closing file: data.txt">>

(***************************************************************************)
(* One call of MergeMaps on two maps, each nil or made.                    *)
(***************************************************************************)
MergeKeys == {"a", "b", "c"}

MergeValues == {1, 3}

\* The maps from some of the keys to the values, and the nil map.
IntMaps ==
    {NilMap} \cup
    {[nil |-> FALSE, kv |-> f] :
        f \in UNION {[S -> MergeValues] : S \in SUBSET MergeKeys}}

MergeMapsOthers ==
    <<cdb, frame, closures, pipe, fnArgs, fnRets, fib,
      counter, cache, tsm, db, account, service, fh, now, stdout, panicked>>

CallMergeMaps ==
    /\ calls = <<>>
    /\ merged' = MergeMaps(map1, map2)
    /\ Record("MergeMaps", <<map1, map2>>, <<merged'>>)
    /\ UNCHANGED <<map1, map2, MergeMapsOthers>>

InitMergeMaps ==
    /\ Started
    /\ IdleCachedDatabase
    /\ IdleDeferStatement
    /\ IdleClosures
    /\ IdlePipeline
    /\ map1 \in IntMaps
    /\ map2 \in IntMaps
    /\ merged = NilMap
    /\ IdleCounter /\ IdleCache /\ IdleTypeSafeMap /\ IdleDatabase
    /\ IdleAccount /\ IdleService /\ IdleFileHandler
    /\ IdlePure /\ IdleFibonacci

NextMergeMaps == CallMergeMaps

SpecMergeMaps == InitMergeMaps /\ [][NextMergeMaps]_vars

\* C10: the map MergeMaps returned has exactly the keys of map1 and map2;
\* every key of map2 has map2's value and every key only in map1 has map1's.
C10_MergeMapsIsOverridingUnion ==
    calls # <<>> =>
        /\ DOMAIN merged.kv = DOMAIN map1.kv \cup DOMAIN map2.kv
        /\ \A k \in DOMAIN map2.kv : merged.kv[k] = map2.kv[k]
        /\ \A k \in DOMAIN map1.kv \ DOMAIN map2.kv :
              merged.kv[k] = map1.kv[k]

\* The maps of the test, {a: 1, b: 1} and {b: 3, c: 3}: b is in both with
\* different values, and map2's won.
C10_Witness ==
    /\ calls # <<>>
    /\ DOMAIN map1.kv = {"a", "b"} /\ map1.kv["b"] = 1
    /\ DOMAIN map2.kv = {"b", "c"} /\ map2.kv["b"] = 3
    /\ merged.kv["b"] = 3
    /\ merged.kv["a"] = map1.kv["a"]
    /\ DOMAIN merged.kv = {"a", "b", "c"}

(***************************************************************************)
(* One call of a function of the solutions on arguments drawn at the       *)
(* start: what every such scenario leaves alone.                           *)
(***************************************************************************)
PureOthers ==
    <<counter, cache, tsm, db, account, service, fh, map1, map2, merged,
      fib, pipe, closures, frame, cdb, now, stdout>>

\* The function has been called (once).
Called == calls # <<>>

(***************************************************************************)
(* One call of GetGrade.                                                   *)
(***************************************************************************)
Scores == (0 - MaxScore)..MaxScore

CallGetGrade ==
    /\ ~Called
    /\ LET grade == GetGrade(fnArgs[1])
       IN  /\ fnRets' = <<grade>>
           /\ Record("GetGrade", fnArgs, <<grade>>)
    /\ UNCHANGED <<fnArgs, panicked, PureOthers>>

InitGetGrade ==
    /\ Started
    /\ IdleCachedDatabase
    /\ IdleDeferStatement
    /\ IdleClosures
    /\ IdlePipeline
    /\ fnArgs \in {<<score>> : score \in Scores}
    /\ fnRets = <<>>
    /\ IdleCounter /\ IdleCache /\ IdleTypeSafeMap /\ IdleDatabase
    /\ IdleAccount /\ IdleService /\ IdleFileHandler /\ IdleMergeMaps
    /\ IdleFibonacci

NextGetGrade == CallGetGrade

SpecGetGrade == InitGetGrade /\ [][NextGetGrade]_vars

\* C11: GetGrade returns "A" iff score >= 90, "B" iff 80 <= score <= 89,
\* "C" iff 70 <= score <= 79, "D" iff 60 <= score <= 69 and "F" iff
\* score < 60.
C11_GetGradeBands ==
    Called =>
        LET score == fnArgs[1]
            grade == fnRets[1]
        IN  /\ (grade = "A") <=> (score >= 90)
            /\ (grade = "B") <=> (80 <= score /\ score <= 89)
            /\ (grade = "C") <=> (70 <= score /\ score <= 79)
            /\ (grade = "D") <=> (60 <= score /\ score <= 69)
            /\ (grade = "F") <=> (score < 60)

\* GetGrade(60) = "D": the lowest score of the "D" band.
C11_Witness ==
    /\ Called
    /\ fnArgs = <<60>>
    /\ fnRets = <<"D">>

(***************************************************************************)
(* Slices of integers: the nil slice and the slices of at most MaxLen      *)
(* elements.                                                               *)
(***************************************************************************)
IntValues == {-3, -2, 0, 1, 2}

IntSlices ==
    {NilSlice} \cup
    {[nil |-> FALSE, elems |-> e] :
        e \in UNION {[1..n -> IntValues] : n \in 0..MaxLen}}

(***************************************************************************)
(* One call of FindMax.                                                    *)
(***************************************************************************)
CallFindMax ==
    /\ ~Called
    /\ LET max == FindMax(fnArgs[1])
       IN  /\ fnRets' = <<max>>
           /\ Record("FindMax", fnArgs, <<max>>)
    /\ UNCHANGED <<fnArgs, panicked, PureOthers>>

InitFindMax ==
    /\ Started
    /\ IdleCachedDatabase
    /\ IdleDeferStatement
    /\ IdleClosures
    /\ IdlePipeline
    /\ fnArgs \in {<<numbers>> : numbers \in IntSlices}
    /\ fnRets = <<>>
    /\ IdleCounter /\ IdleCache /\ IdleTypeSafeMap /\ IdleDatabase
    /\ IdleAccount /\ IdleService /\ IdleFileHandler /\ IdleMergeMaps
    /\ IdleFibonacci

NextFindMax == CallFindMax

SpecFindMax == InitFindMax /\ [][NextFindMax]_vars

\* The elements of the sequence e.
Elements(e) == {e[i] : i \in 1..Len(e)}

\* C12: for a non-empty slice FindMax returns an element of the slice that
\* is greater than or equal to every element, also when all elements are
\* negative; for the empty slice it returns 0.
C12_FindMaxIsMaximum ==
    Called =>
        LET e == fnArgs[1].elems
        IN  IF e = <<>>
            THEN fnRets = <<0>>
            ELSE /\ fnRets[1] \in Elements(e)
                 /\ \A x \in Elements(e) : fnRets[1] >= x

\* FindMax([-3, -2, -3]) = -2: all elements are negative.
C12_Witness ==
    /\ Called
    /\ fnArgs[1].elems = <<-3, -2, -3>>
    /\ fnRets = <<-2>>

(***************************************************************************)
(* ReverseSlice called on the caller's slice, and again on the result.     *)
(***************************************************************************)
CallReverseSlice ==
    /\ Len(calls) < MaxReverseCalls
    /\ LET numbers == ReverseSlice(fnArgs[1])
       IN  /\ fnArgs' = <<numbers>>
           /\ fnRets' = <<numbers>>
           /\ Record("ReverseSlice", fnArgs, <<numbers>>)
    /\ UNCHANGED <<panicked, PureOthers>>

InitReverseSlice ==
    /\ Started
    /\ IdleCachedDatabase
    /\ IdleDeferStatement
    /\ IdleClosures
    /\ IdlePipeline
    /\ fnArgs \in {<<numbers>> : numbers \in IntSlices}
    /\ fnRets = <<>>
    /\ IdleCounter /\ IdleCache /\ IdleTypeSafeMap /\ IdleDatabase
    /\ IdleAccount /\ IdleService /\ IdleFileHandler /\ IdleMergeMaps
    /\ IdleFibonacci

NextReverseSlice == CallReverseSlice

SpecReverseSlice == InitReverseSlice /\ [][NextReverseSlice]_vars

\* C13: after each call, element i (0-based) of the returned slice, which is
\* the caller's slice, is the element n-1-i the slice had before the call,
\* and the length is unchanged; a second call restores the contents the
\* slice had before the first.
C13_ReverseSliceReverses ==
    \A c \in 1..Len(calls) :
        LET old == calls[c].args[1].elems
            new == calls[c].rets[1].elems
            n   == Len(old)
        IN  /\ Len(new) = n
            /\ \A i \in 0..(n - 1) : new[i + 1] = old[(n - 1 - i) + 1]
            /\ c = Len(calls) => fnArgs = calls[c].rets
            /\ c >= 2 => calls[c].rets = calls[c - 1].args

\* [1, 2, -3, 0] was reversed to [0, -3, 2, 1], and then back.
C13_Witness ==
    /\ Len(calls) = 2
    /\ calls[1].args[1].elems = <<1, 2, -3, 0>>
    /\ calls[1].rets[1].elems = <<0, -3, 2, 1>>
    /\ fnArgs[1].elems = <<1, 2, -3, 0>>

(***************************************************************************)
(* One call of FilterEvens.                                                *)
(***************************************************************************)
CallFilterEvens ==
    /\ ~Called
    /\ LET result == FilterEvens(fnArgs[1])
       IN  /\ fnRets' = <<result>>
           /\ Record("FilterEvens", fnArgs, <<result>>)
    /\ UNCHANGED <<fnArgs, panicked, PureOthers>>

InitFilterEvens ==
    /\ Started
    /\ IdleCachedDatabase
    /\ IdleDeferStatement
    /\ IdleClosures
    /\ IdlePipeline
    /\ fnArgs \in {<<numbers>> : numbers \in IntSlices}
    /\ fnRets = <<>>
    /\ IdleCounter /\ IdleCache /\ IdleTypeSafeMap /\ IdleDatabase
    /\ IdleAccount /\ IdleService /\ IdleFileHandler /\ IdleMergeMaps
    /\ IdleFibonacci

NextFilterEvens == CallFilterEvens

SpecFilterEvens == InitFilterEvens /\ [][NextFilterEvens]_vars

\* An even integer is twice an integer.
IsEvenNumber(n) == \E k \in -3..3 : n = 2 * k

\* C15: FilterEvens returns a slice that is not nil and holds exactly the
\* even elements of the input, each as often and in the same order as in
\* the input (so none when there is none); the input is as it was.
C15_FilterEvensKeepsEvens ==
    Called =>
        /\ ~fnRets[1].nil
        /\ fnRets[1].elems = SelectSeq(calls[1].args[1].elems, IsEvenNumber)
        /\ fnArgs = calls[1].args

\* FilterEvens([-3, -2, 0, -2]) = [-2, 0, -2].
C15_Witness ==
    /\ Called
    /\ fnArgs[1].elems = <<-3, -2, 0, -2>>
    /\ fnRets[1].elems = <<-2, 0, -2>>
    /\ ~fnRets[1].nil

(***************************************************************************)
(* One run of the iterative Fibonacci, a statement at a time.              *)
(***************************************************************************)
FibonacciOthers ==
    <<cdb, frame, closures, pipe, fnArgs, fnRets,
      counter, cache, tsm, db, account, service, fh, map1, map2, merged,
      now, stdout, panicked>>

FibonacciBase ==
    /\ fib.pc = "start"
    /\ Fibonacci_IsBase(fib)
    /\ fib' = Fibonacci_Base(fib)
    /\ Record("Fibonacci", <<fib.n>>, <<fib'.ret>>)
    /\ UNCHANGED FibonacciOthers

FibonacciEnter ==
    /\ fib.pc = "start"
    /\ ~Fibonacci_IsBase(fib)
    /\ fib' = Fibonacci_Enter(fib)
    /\ UNCHANGED <<calls, FibonacciOthers>>

\* The values of i at which a run is followed one iteration at a time: up
\* to MaxIterations, which covers every iteration of a call on an argument
\* up to MaxIterations, and at the two ends of the int.
FollowedIteration(i) ==
    \/ (~i.neg /\ IntLessEq(i, IntOf(MaxIterations)))
    \/ i \in {MaxInt, MinInt}

\* The next value of i above i (or, past the greatest, around the int) at
\* which the run is followed again.
NextFollowedIteration(i) == IF i.neg THEN IntOf(2) ELSE MaxInt

\* One iteration of the loop.
FibonacciIterate ==
    /\ fib.pc = "loop"
    /\ Fibonacci_Continues(fib)
    /\ FollowedIteration(fib.i)
    /\ fib' = Fibonacci_Iterate(fib)
    /\ UNCHANGED <<calls, FibonacciOthers>>

\* The iterations of a long run between two values of i at which it is
\* followed, taken at once: the loop condition holds at each of them, since
\* it holds at the greatest, the one before the value the run is followed
\* at next.
FibonacciIterateTimes ==
    /\ fib.pc = "loop"
    /\ ~FollowedIteration(fib.i)
    /\ LET next == NextFollowedIteration(fib.i)
           last == IntSub(next, IntOf(1))
       IN  /\ IntLessEq(fib.i, last)
           /\ IntLessEq(last, fib.n)
           /\ fib' = Fibonacci_IterateTimes(
                         fib, BigAdd(next, BigNeg(fib.i)).mag)
    /\ UNCHANGED <<calls, FibonacciOthers>>

FibonacciReturn ==
    /\ fib.pc = "loop"
    /\ ~Fibonacci_Continues(fib)
    /\ fib' = Fibonacci_Return(fib)
    /\ Record("Fibonacci", <<fib.n>>, <<fib'.ret>>)
    /\ UNCHANGED FibonacciOthers

\* The arguments: the small ones, negative ones included, up to the first
\* two whose Fibonacci number does not fit an int (F(93) and F(94)), and
\* the least and the greatest int.
FibonacciArgs ==
    {IntOf(n) : n \in (0 - 2)..MaxIterations} \cup {MinInt, MaxInt}

InitFibonacci ==
    /\ Started
    /\ IdleCachedDatabase
    /\ IdleDeferStatement
    /\ IdleClosures
    /\ IdlePipeline
    /\ fib \in {Fibonacci_Called(n) : n \in FibonacciArgs}
    /\ IdleCounter /\ IdleCache /\ IdleTypeSafeMap /\ IdleDatabase
    /\ IdleAccount /\ IdleService /\ IdleFileHandler /\ IdleMergeMaps
    /\ IdlePure

NextFibonacci ==
    \/ FibonacciBase
    \/ FibonacciEnter
    \/ FibonacciIterate
    \/ FibonacciIterateTimes
    \/ FibonacciReturn

SpecFibonacci == InitFibonacci /\ [][NextFibonacci]_vars

\* A call that has started keeps running: it takes its next step as long as
\* it has one.
SpecFibonacciFair == SpecFibonacci /\ WF_vars(NextFibonacci)

\* The sequence defined by F(0) = 0, F(1) = 1, F(n) = F(n-1) + F(n-2),
\* computed without bound: <<F(n), F(n+1)>>, n places after <<F(0), F(1)>>.
FibPair(n) ==
    Steps(1, n, <<IntOf(0), IntOf(1)>>, LAMBDA i, p :
        <<p[2], BigAdd(p[1], p[2])>>)

\* The arguments n >= 0 for which F(n) fits an int: those up to 92.
NoOverflow(n) == n >= 0 /\ ~BigLess(MaxInt, FibPair(n)[1])

\* A finished run on an argument without overflow returned F(n).
FibonacciRecurrence ==
    \A n \in 0..MaxIterations :
        (fib.pc = "done" /\ fib.n = IntOf(n) /\ NoOverflow(n)) =>
            fib.ret = FibPair(n)[1]

\* C14: Fibonacci(0) = 0, Fibonacci(1) = 1 and Fibonacci(n) =
\* Fibonacci(n-1) + Fibonacci(n-2) for n >= 2 as long as nothing overflows,
\* and the loop terminates for every n.
C14_FibonacciRecurrenceAndTermination ==
    /\ []FibonacciRecurrence
    /\ <>(fib.pc = "done")

\* What holds instead: the recurrence as stated, and termination for every
\* n but the greatest int, for which i <= n never fails.
C14_TerminatesBelowMaxInt ==
    /\ []FibonacciRecurrence
    /\ (fib.n # MaxInt) => <>(fib.pc = "done")

\* In the loop of Fibonacci(MaxInt) the condition i <= n holds, and it
\* still holds when i has reached MaxInt and after the i++ that follows,
\* which wraps i around to MinInt: the loop has no exit.
C14_LoopOfMaxIntHasNoExit ==
    (fib.pc = "loop" /\ fib.n = MaxInt) =>
        LET last == [fib EXCEPT !.i = MaxInt]
        IN  /\ Fibonacci_Continues(fib)
            /\ Fibonacci_Continues(last)
            /\ Fibonacci_Iterate(last).i = MinInt
            /\ Fibonacci_Continues(Fibonacci_Iterate(last))

\* Fibonacci(8) returned 21 after its seven iterations.
C14_Witness ==
    /\ fib.pc = "done"
    /\ fib.n = IntOf(8)
    /\ fib.ret = IntOf(21)
    /\ fib.i = IntOf(9)

\* Fibonacci(93) returned F(93) - 2^64 = -6246583658587674878: the sum
\* overflowed.
C14_Overflowed ==
    /\ fib.pc = "done"
    /\ fib.n = IntOf(93)
    /\ fib.ret = WrapInt(FibPair(93)[1])
    /\ fib.ret.neg

\* The run of Fibonacci(MaxInt) in its loop, past the wrap of i: after
\* 2^64 iterations i is 2 again, with other values of prev and curr than at
\* the start.
C14_LoopOfMaxInt ==
    /\ fib.pc = "loop"
    /\ fib.n = MaxInt
    /\ fib.i = IntOf(2)
    /\ fib.prev # IntOf(0)

(***************************************************************************)
(* The shapes of the scenarios: the shapes of the tests (Circle{2},        *)
(* Square{3}, Triangle{3, 4}), two different shapes of the same area       *)
(* (Circle{2} and Ellipse{4, 1}), a side of 0, a negative base, sides that *)
(* are no binary fractions (Triangle{0.2, 1}, whose area is 0.1), and the  *)
(* nil Shape.                                                              *)
(***************************************************************************)
Shapes ==
    {NilShape,
     Circle(Float(2)), Ellipse(Float(4), Float(1)),
     Square(Float(0)), Square(Float(3)),
     Triangle(Float(3), Float(4)), Triangle(Float(0 - 2), Float(3)),
     Triangle(FloatOf(1, 5), Float(1))}

ShapeSlices ==
    {NilSlice} \cup
    {[nil |-> FALSE, elems |-> e] :
        e \in UNION {[1..n -> Shapes] : n \in 0..MaxShapes}}

(***************************************************************************)
(* One call of FindLargestShape.                                           *)
(***************************************************************************)
CallFindLargestShape ==
    /\ ~Called
    /\ \E r \in {FindLargestShape(fnArgs[1])} :
           /\ fnRets' = r.rets
           /\ panicked' = r.panic
           /\ Record("FindLargestShape", fnArgs, r.rets)
    /\ UNCHANGED <<fnArgs, PureOthers>>

InitFindLargestShape ==
    /\ Started
    /\ IdleCachedDatabase
    /\ IdleDeferStatement
    /\ IdleClosures
    /\ IdlePipeline
    /\ fnArgs \in {<<shapes>> : shapes \in ShapeSlices}
    /\ fnRets = <<>>
    /\ IdleCounter /\ IdleCache /\ IdleTypeSafeMap /\ IdleDatabase
    /\ IdleAccount /\ IdleService /\ IdleFileHandler /\ IdleMergeMaps
    /\ IdleFibonacci

NextFindLargestShape == CallFindLargestShape

SpecFindLargestShape == InitFindLargestShape /\ [][NextFindLargestShape]_vars

\* a <= b
FloatLessEq(a, b) == FloatLess(a, b) \/ FloatEq(a, b)

\* The area of e[i] is greater than or equal to the area of every shape
\* of e.
HasLargestArea(e, i) ==
    \A j \in 1..Len(e) : FloatLessEq(Shape_Area(e[j]), Shape_Area(e[i]))

\* C16: FindLargestShape returns nil for an empty slice; for a non-empty
\* slice it returns the earliest element whose area is greater than or
\* equal to the area of every element.  (A slice that holds a nil Shape,
\* which has no area, makes the call panic.)
C16_FindLargestShapeIsEarliestLargest ==
    Called =>
        LET e == fnArgs[1].elems
        IN  IF e = <<>>
            THEN fnRets = <<NilShape>> /\ ~panicked
            ELSE IF SomeAreaPanics(e)
            THEN panicked
            ELSE /\ ~panicked
                 /\ \E i \in 1..Len(e) :
                       /\ fnRets = <<e[i]>>
                       /\ HasLargestArea(e, i)
                       /\ \A j \in 1..(i - 1) : ~HasLargestArea(e, j)

\* Circle{2} and Ellipse{4, 1} share the largest area, 4 * math.Pi; the
\* circle comes first and is returned.
C16_Witness ==
    /\ Called
    /\ fnArgs[1].elems =
           <<Square(Float(3)), Circle(Float(2)), Ellipse(Float(4), Float(1))>>
    /\ fnRets = <<Circle(Float(2))>>

(***************************************************************************)
(* CompareShapes called on two shapes, in either order and on one shape    *)
(* twice.                                                                  *)
(***************************************************************************)
CallCompareShapes ==
    /\ Len(calls) < MaxCompareCalls
    /\ ~panicked
    /\ \E s1, s2 \in {fnArgs[1], fnArgs[2]} :
          \E r \in {CompareShapes(s1, s2)} :
              /\ fnRets' = r.rets
              /\ panicked' = r.panic
              /\ Record("CompareShapes", <<s1, s2>>, r.rets)
    /\ UNCHANGED <<fnArgs, PureOthers>>

InitCompareShapes ==
    /\ Started
    /\ IdleCachedDatabase
    /\ IdleDeferStatement
    /\ IdleClosures
    /\ IdlePipeline
    /\ fnArgs \in {<<s1, s2>> : s1, s2 \in Shapes}
    /\ fnRets = <<>>
    /\ IdleCounter /\ IdleCache /\ IdleTypeSafeMap /\ IdleDatabase
    /\ IdleAccount /\ IdleService /\ IdleFileHandler /\ IdleMergeMaps
    /\ IdleFibonacci

NextCompareShapes == CallCompareShapes

SpecCompareShapes == InitCompareShapes /\ [][NextCompareShapes]_vars

\* C17: CompareShapes(s1, s2) is -1 when the area of s1 is smaller, 1 when
\* it is larger and 0 when the areas are equal; a call with the arguments
\* exchanged returns the negated result, and a shape compared with itself
\* gives 0.  (A nil Shape has no area: the call panics.)
C17_CompareShapesOrdersByArea ==
    \A i \in 1..Len(calls) :
        LET s1 == calls[i].args[1]
            s2 == calls[i].args[2]
        IN  IF SomeAreaPanics(<<s1, s2>>)
            THEN calls[i].rets = <<>> /\ i = Len(calls) /\ panicked
            ELSE /\ FloatLess(Shape_Area(s1), Shape_Area(s2))
                        => calls[i].rets = <<0 - 1>>
                 /\ FloatLess(Shape_Area(s2), Shape_Area(s1))
                        => calls[i].rets = <<1>>
                 /\ FloatEq(Shape_Area(s1), Shape_Area(s2))
                        => calls[i].rets = <<0>>
                 /\ s1 = s2 => calls[i].rets = <<0>>
                 /\ \A j \in 1..Len(calls) :
                       calls[j].args = <<s2, s1>>
                           => calls[j].rets[1] = 0 - calls[i].rets[1]

\* Square{3} against Circle{2} gives -1, and Circle{2} against Square{3}
\* gives 1.
C17_Witness ==
    /\ Len(calls) = 2
    /\ calls[1].args = <<Square(Float(3)), Circle(Float(2))>>
    /\ calls[1].rets = <<0 - 1>>
    /\ calls[2].args = <<Circle(Float(2)), Square(Float(3))>>
    /\ calls[2].rets = <<1>>

\* Two different shapes of the same area compare as equal.
C17_WitnessEqualAreas ==
    /\ Called
    /\ calls[1].args = <<Circle(Float(2)), Ellipse(Float(4), Float(1))>>
    /\ calls[1].rets = <<0>>

(***************************************************************************)
(* One call of CalculateStats.                                             *)
(***************************************************************************)
CallCalculateStats ==
    /\ ~Called
    /\ \E r \in {CalculateStats(fnArgs[1])} :
           /\ fnRets' = r.rets
           /\ panicked' = r.panic
           /\ Record("CalculateStats", fnArgs, r.rets)
    /\ UNCHANGED <<fnArgs, PureOthers>>

InitCalculateStats ==
    /\ Started
    /\ IdleCachedDatabase
    /\ IdleDeferStatement
    /\ IdleClosures
    /\ IdlePipeline
    /\ fnArgs \in {<<shapes>> : shapes \in ShapeSlices}
    /\ fnRets = <<>>
    /\ IdleCounter /\ IdleCache /\ IdleTypeSafeMap /\ IdleDatabase
    /\ IdleAccount /\ IdleService /\ IdleFileHandler /\ IdleMergeMaps
    /\ IdleFibonacci

NextCalculateStats == CallCalculateStats

SpecCalculateStats == InitCalculateStats /\ [][NextCalculateStats]_vars

\* The areas of the shapes of e.
Areas(e) == {Shape_Area(e[i]) : i \in 1..Len(e)}

\* The sum of the areas of the shapes of e, added up in the order of the
\* slice.
RECURSIVE SumOfAreas(_)
SumOfAreas(e) ==
    IF e = <<>> THEN Float(0)
    ELSE FloatAdd(SumOfAreas(SubSeq(e, 1, Len(e) - 1)),
                  Shape_Area(e[Len(e)]))

\* Count, TotalArea, MinArea and AvgArea of the result are those of e.
StatsButMaxArea(e, stats) ==
    /\ stats.Count = Len(e)
    /\ stats.TotalArea = SumOfAreas(e)
    /\ stats.MinArea \in Areas(e)
    /\ \A a \in Areas(e) : FloatLessEq(stats.MinArea, a)
    /\ stats.AvgArea = FloatDiv(stats.TotalArea, Float(stats.Count))

\* MaxArea of the result is the largest area of e.
StatsMaxArea(e, stats) ==
    /\ stats.MaxArea \in Areas(e)
    /\ \A a \in Areas(e) : FloatLessEq(a, stats.MaxArea)

\* MinArea <= AvgArea <= MaxArea
StatsOrdered(stats) ==
    /\ FloatLessEq(stats.MinArea, stats.AvgArea)
    /\ FloatLessEq(stats.AvgArea, stats.MaxArea)

\* C18: for a non-empty slice CalculateStats returns the number of shapes,
\* the sum of the areas, the smallest and the largest area of the slice
\* and TotalArea / Count, with MinArea <= AvgArea <= MaxArea; for the empty
\* slice every field is zero.  (A slice that holds a nil Shape, which has
\* no area, makes the call panic.)
C18_CalculateStatsSummarises ==
    Called =>
        LET e == fnArgs[1].elems
        IN  IF e = <<>>
            THEN fnRets = <<ShapeStats_Zero>>
            ELSE IF SomeAreaPanics(e)
            THEN panicked
            ELSE /\ StatsButMaxArea(e, fnRets[1])
                 /\ StatsMaxArea(e, fnRets[1])
                 /\ StatsOrdered(fnRets[1])

\* What does hold: every field but MaxArea is as C18 says, and MaxArea is
\* the largest area of the slice when that area is not negative, and 0
\* when every area is negative.  The order of MinArea, AvgArea and MaxArea
\* is not part of it.
C18_MaxAreaStartsFromZero ==
    Called =>
        LET e == fnArgs[1].elems
            stats == fnRets[1]
        IN  IF e = <<>>
            THEN fnRets = <<ShapeStats_Zero>>
            ELSE IF SomeAreaPanics(e)
            THEN panicked
            ELSE /\ StatsButMaxArea(e, stats)
                 /\ IF \A a \in Areas(e) : FloatLess(a, Float(0))
                    THEN stats.MaxArea = Float(0)
                    ELSE StatsMaxArea(e, stats)

\* CalculateStats([]Shape{Triangle{Base: -2, Height: 3}}) has MaxArea 0,
\* the area of no shape of the slice.
C18_NegativeAreas ==
    /\ Called
    /\ fnArgs[1].elems = <<Triangle(Float(0 - 2), Float(3))>>
    /\ fnRets[1].MinArea = Float(0 - 3)
    /\ fnRets[1].AvgArea = Float(0 - 3)
    /\ fnRets[1].MaxArea = Float(0)

\* Three times Triangle{Base: 0.2, Height: 1}: MinArea = MaxArea = 0.1, the
\* sum of the three areas is rounded up to 0.30000000000000004, and
\* AvgArea = 0.10000000000000002 is above MaxArea.
C18_AverageAboveMaxArea ==
    /\ Called
    /\ fnArgs[1].elems = [i \in 1..3 |-> Triangle(FloatOf(1, 5), Float(1))]
    /\ fnRets[1].MinArea = FloatOf(1, 10)
    /\ fnRets[1].MaxArea = FloatOf(1, 10)
    /\ FloatLess(FloatOf(3, 10), fnRets[1].TotalArea)
    /\ FloatLess(fnRets[1].MaxArea, fnRets[1].AvgArea)

\* The statistics of the test: a circle, a square and a triangle, of the
\* areas 4 * math.Pi, 9 and 6.
C18_Witness ==
    /\ Called
    /\ fnArgs[1].elems =
           <<Circle(Float(2)), Square(Float(3)), Triangle(Float(3), Float(4))>>
    /\ fnRets[1].Count = 3
    /\ fnRets[1].MinArea = Float(6)
    /\ fnRets[1].MaxArea = FloatMul(Float(4), Pi)
    /\ fnRets[1].TotalArea =
           FloatAdd(FloatAdd(FloatMul(Float(4), Pi), Float(9)), Float(6))
    /\ StatsOrdered(fnRets[1])

(***************************************************************************)
(* One call of ConvertToInt.                                               *)
(***************************************************************************)
\* Strings that are not decimal integers.
NotIntegers == {"", "-", "+", "abc", "1a", "a1", "1.5", " 1", "--1", "1-"}

\* The small ints converted.
ConvertInts == (0 - MaxConvert)..MaxConvert

\* The decimal spellings of the numbers just outside the int.
JustOutOfRange ==
    {"9223372036854775808", "-9223372036854775809", "99999999999999999999"}

\* The strings converted: the small ints written in decimal, the least
\* and the greatest int, the numbers just outside the int, other spellings
\* of a number, and the strings above.
ConvertStrings ==
    {ToString(n) : n \in ConvertInts}
        \cup {"123", "9223372036854775807", "-9223372036854775808"}
        \cup JustOutOfRange
        \cup {"+3", "007", "-0"} \cup NotIntegers

\* The values converted, of every type of the switch and of two others.
ConvertValues ==
    {VInt(n) : n \in ConvertInts}
        \cup {VFloat64(f) : f \in (0 - MaxHalves)..MaxHalves}
        \cup {VString(s) : s \in ConvertStrings}
        \cup {VBool(TRUE), VBool(FALSE), VNil, VIntSlice}

CallConvertToInt ==
    /\ ~Called
    /\ LET rets == ConvertToInt(fnArgs[1])
       IN  /\ fnRets' = rets
           /\ Record("ConvertToInt", fnArgs, rets)
    /\ UNCHANGED <<fnArgs, panicked, PureOthers>>

InitConvertToInt ==
    /\ Started
    /\ IdleCachedDatabase
    /\ IdleDeferStatement
    /\ IdleClosures
    /\ IdlePipeline
    /\ fnArgs \in {<<v>> : v \in ConvertValues}
    /\ fnRets = <<>>
    /\ IdleCounter /\ IdleCache /\ IdleTypeSafeMap /\ IdleDatabase
    /\ IdleAccount /\ IdleService /\ IdleFileHandler /\ IdleMergeMaps
    /\ IdleFibonacci

NextConvertToInt == CallConvertToInt

SpecConvertToInt == InitConvertToInt /\ [][NextConvertToInt]_vars

\* C19: ConvertToInt returns (v, nil) for an int v, (1, nil) for true,
\* (0, nil) for false and (n, nil) for the decimal spelling of an int n,
\* the least and the greatest int included; it returns a non-nil error for
\* a string that is not an integer, for the spelling of a number that is
\* not an int, and for a value of a type other than int, float64, string
\* and bool; and the int returned with a non-nil error is 0.
C19_ConvertToIntValueOrError ==
    Called =>
        LET v == fnArgs[1]
        IN  /\ v.type = "int" => fnRets = <<IntOf(v.i), ErrNil>>
            /\ v = VBool(TRUE) => fnRets = <<IntOf(1), ErrNil>>
            /\ v = VBool(FALSE) => fnRets = <<IntOf(0), ErrNil>>
            /\ \A n \in ConvertInts \cup {123} :
                  v = VString(ToString(n)) => fnRets = <<IntOf(n), ErrNil>>
            /\ v = VString("9223372036854775807")
                  => fnRets = <<MaxInt, ErrNil>>
            /\ v = VString("-9223372036854775808")
                  => fnRets = <<MinInt, ErrNil>>
            /\ v.type = "string" /\ v.s \in NotIntegers \cup JustOutOfRange
                  => ~fnRets[2].nil
            /\ v.type \notin {"int", "float64", "string", "bool"}
                  => ~fnRets[2].nil
            /\ ~fnRets[2].nil => fnRets[1] = IntOf(0)

\* ConvertToInt("1a") fails: the int is 0 and the error names the string.
C19_Witness ==
    /\ Called
    /\ fnArgs = <<VString("1a")>>
    /\ fnRets[1] = IntOf(0)
    /\ fnRets[2] =
           Errorf("cannot convert string \"1a\" to int: "
                  \o "strconv.Atoi: parsing \"1a\": invalid syntax")

\* ConvertToInt("-12") = (-12, nil).
C19_WitnessNumber ==
    /\ Called
    /\ fnArgs = <<VString("-12")>>
    /\ fnRets = <<IntOf(0 - 12), ErrNil>>

\* ConvertToInt([]int{}) and ConvertToInt(nil) fail.
C19_WitnessUnsupported ==
    /\ Called
    /\ fnArgs[1] \in {VIntSlice, VNil}
    /\ fnRets[1] = IntOf(0)
    /\ ~fnRets[2].nil

(***************************************************************************)
(* One call of Filter.                                                     *)
(***************************************************************************)
\* The values filtered: two of a type, a string that spells a type name,
\* and values of types Filter has no case for.
FilterValues ==
    {VInt(1), VInt(2), VString("hello"), VString("int"), VFloat64(3),
     VBool(TRUE), VNil, VIntSlice}

FilterSlices ==
    {NilSlice} \cup
    {[nil |-> FALSE, elems |-> e] :
        e \in UNION {[1..n -> FilterValues] : n \in 0..MaxFilterLen}}

\* The type names asked for: the four of the switch and some others.
FilterTypeNames ==
    {"int", "string", "float64", "bool", "[]int", "nil", "Int", ""}

CallFilter ==
    /\ ~Called
    /\ LET r == Filter(fnArgs[1], fnArgs[2])
       IN  /\ fnRets' = r.rets
           /\ panicked' = r.panic
           /\ Record("Filter", fnArgs, r.rets)
    /\ UNCHANGED <<fnArgs, PureOthers>>

InitFilter ==
    /\ Started
    /\ IdleCachedDatabase
    /\ IdleDeferStatement
    /\ IdleClosures
    /\ IdlePipeline
    /\ fnArgs \in {<<values, typeName>> :
                      values \in FilterSlices, typeName \in FilterTypeNames}
    /\ fnRets = <<>>
    /\ IdleCounter /\ IdleCache /\ IdleTypeSafeMap /\ IdleDatabase
    /\ IdleAccount /\ IdleService /\ IdleFileHandler /\ IdleMergeMaps
    /\ IdleFibonacci

NextFilter == CallFilter

SpecFilter == InitFilter /\ [][NextFilter]_vars

\* The elements of e whose dynamic type is named T, in the order of e.
OfType(e, T) == SelectSeq(e, LAMBDA v : v.type = T)

\* C20: Filter never panics; for the type names int, string, float64 and
\* bool it returns exactly the values of that dynamic type, in their
\* original order, and for every other type name it returns no value.
C20_FilterKeepsValuesOfType ==
    /\ ~panicked
    /\ Called =>
          LET e == fnArgs[1].elems
              typeName == fnArgs[2]
          IN  /\ Len(fnRets) = 1
              /\ fnRets[1].elems =
                     IF typeName \in {"int", "string", "float64", "bool"}
                     THEN OfType(e, typeName)
                     ELSE <<>>
              /\ typeName \in {"int", "string", "float64", "bool"}
                     => Len(fnRets[1].elems)
                            = Cardinality({i \in 1..Len(e) :
                                              e[i].type = typeName})

\* Filter([2, "int", 1], "int") = [2, 1]: the string is dropped and the
\* order kept.
C20_Witness ==
    /\ Called
    /\ fnArgs = <<[nil |-> FALSE,
                   elems |-> <<VInt(2), VString("int"), VInt(1)>>], "int">>
    /\ fnRets[1].elems = <<VInt(2), VInt(1)>>

\* Filter([[]int{}, true], "[]int") is empty: the type name has no case.
C20_WitnessOtherTypeName ==
    /\ Called
    /\ fnArgs = <<[nil |-> FALSE, elems |-> <<VIntSlice, VBool(TRUE)>>],
                  "[]int">>
    /\ fnRets = <<EmptySlice>>

(***************************************************************************)
(* One run of usePipeline, a statement of a goroutine at a time.           *)
(***************************************************************************)
PipelineOthers ==
    <<cdb, frame, closures, fnArgs, fnRets, fib,
      counter, cache, tsm, db, account, service, fh, map1, map2, merged,
      now, calls, panicked>>

\* The numbers given to generator.
PipelineNums == UNION {[1..n -> 1..MaxNum] : n \in 0..MaxNums}

PipelineGeneratorCall ==
    /\ pipe.main.pc = "generator"
    /\ pipe' = Generator_Call(pipe)
    /\ UNCHANGED <<stdout, PipelineOthers>>

PipelineSquareCall ==
    /\ pipe.main.pc = "square"
    /\ pipe' = Square_Call(pipe)
    /\ UNCHANGED <<stdout, PipelineOthers>>

PipelineGeneratorRange ==
    /\ pipe.gen.pc = "range"
    /\ pipe' = Generator_Range(pipe)
    /\ UNCHANGED <<stdout, PipelineOthers>>

PipelineGeneratorSend ==
    /\ Generator_CanSend(pipe)
    /\ pipe' = Generator_Send(pipe)
    /\ UNCHANGED <<stdout, PipelineOthers>>

PipelineGeneratorClose ==
    /\ pipe.gen.pc = "close"
    /\ pipe' = Generator_Close(pipe)
    /\ UNCHANGED <<stdout, PipelineOthers>>

PipelineSquareRangeEnds ==
    /\ pipe.sq.pc = "range"
    /\ pipe.genOut.closed
    /\ pipe' = Square_RangeEnds(pipe)
    /\ UNCHANGED <<stdout, PipelineOthers>>

PipelineSquareSend ==
    /\ Square_CanSend(pipe)
    /\ pipe' = Square_Send(pipe)
    /\ UNCHANGED <<stdout, PipelineOthers>>

PipelineSquareClose ==
    /\ pipe.sq.pc = "close"
    /\ pipe' = Square_Close(pipe)
    /\ UNCHANGED <<stdout, PipelineOthers>>

PipelinePrint ==
    /\ pipe.main.pc = "print"
    /\ pipe' = UsePipeline_Printed(pipe)
    /\ stdout' = Append(stdout, ToString(pipe.main.result))
    /\ UNCHANGED PipelineOthers

PipelineRangeEnds ==
    /\ pipe.main.pc = "range"
    /\ pipe.sqOut.closed
    /\ pipe' = UsePipeline_RangeEnds(pipe)
    /\ UNCHANGED <<stdout, PipelineOthers>>

InitPipeline ==
    /\ Started
    /\ IdleCachedDatabase
    /\ IdleDeferStatement
    /\ IdleClosures
    /\ pipe \in {Pipeline_Called(nums) : nums \in PipelineNums}
    /\ IdleCounter /\ IdleCache /\ IdleTypeSafeMap /\ IdleDatabase
    /\ IdleAccount /\ IdleService /\ IdleFileHandler /\ IdleMergeMaps
    /\ IdlePure /\ IdleFibonacci

NextPipeline ==
    \/ PipelineGeneratorCall
    \/ PipelineSquareCall
    \/ PipelineGeneratorRange
    \/ PipelineGeneratorSend
    \/ PipelineGeneratorClose
    \/ PipelineSquareRangeEnds
    \/ PipelineSquareSend
    \/ PipelineSquareClose
    \/ PipelinePrint
    \/ PipelineRangeEnds

SpecPipeline == InitPipeline /\ [][NextPipeline]_vars

\* A goroutine that can take a step is scheduled in the end.
SpecPipelineFair == SpecPipeline /\ WF_vars(NextPipeline)

\* The lines printed for the first k numbers: their squares, in order.
SquaresPrinted(nums, k) == [i \in 1..k |-> ToString(nums[i] * nums[i])]

\* The run is over: the consumer and both stage goroutines have exited and
\* both channels are closed.
PipelineDone ==
    /\ pipe.main.pc = "done"
    /\ pipe.gen.pc = "done"
    /\ pipe.sq.pc = "done"
    /\ pipe.genOut.closed
    /\ pipe.sqOut.closed

\* What the consumer has printed so far is a prefix of the squares, and
\* all of them once it is done; for generator(1, 2, 3, 4) the lines are 1,
\* 4, 9, 16.
PipelineInOrder ==
    /\ \E k \in 0..Len(pipe.nums) : stdout = SquaresPrinted(pipe.nums, k)
    /\ pipe.main.pc = "done" => Len(stdout) = Len(pipe.nums)
    /\ (pipe.main.pc = "done" /\ pipe.nums = <<1, 2, 3, 4>>)
           => stdout = <<"1", "4", "9", "16">>

\* Some goroutine can take a step unless the run is over.
PipelineNoDeadlock == PipelineDone \/ ENABLED NextPipeline

\* C21: under every interleaving the consumer receives the squares of the
\* numbers in order (1, 4, 9, 16 for generator(1, 2, 3, 4)), the run never
\* deadlocks, and it terminates with both channels closed and both stage
\* goroutines gone.
C21_PipelineSquaresInOrderAndTerminates ==
    /\ [](PipelineInOrder /\ PipelineNoDeadlock)
    /\ <>PipelineDone

\* The run of generator(1, 2, 3, 4) is over and has printed 1, 4, 9, 16.
C21_Witness ==
    /\ PipelineDone
    /\ pipe.nums = <<1, 2, 3, 4>>
    /\ stdout = <<"1", "4", "9", "16">>

(***************************************************************************)
(* Calls of Closures and of the counters it returned, in any order.        *)
(***************************************************************************)
ClosuresOthers ==
    <<cdb, frame, fnArgs, fnRets, fib, pipe,
      counter, cache, tsm, db, account, service, fh, map1, map2, merged,
      now, stdout, panicked>>

CallClosures ==
    /\ Len(closures) < MaxClosures
    /\ Len(calls) < MaxClosureCalls
    /\ LET r == Closures(closures)
       IN  /\ closures' = r.self
           /\ Record("Closures", <<>>, r.rets)
    /\ UNCHANGED ClosuresOthers

CallClosure ==
    /\ Len(calls) < MaxClosureCalls
    /\ \E id \in DOMAIN closures :
          LET r == Closure_Call(closures, id)
          IN  /\ closures' = r.self
              /\ Record("counter", <<id>>, r.rets)
    /\ UNCHANGED ClosuresOthers

InitClosures ==
    /\ Started
    /\ IdleCachedDatabase
    /\ IdleDeferStatement
    /\ IdlePipeline
    /\ closures = <<>>
    /\ IdleCounter /\ IdleCache /\ IdleTypeSafeMap /\ IdleDatabase
    /\ IdleAccount /\ IdleService /\ IdleFileHandler /\ IdleMergeMaps
    /\ IdlePure /\ IdleFibonacci

NextClosures ==
    \/ CallClosures
    \/ CallClosure

SpecClosures == InitClosures /\ [][NextClosures]_vars

\* The calls among the first i that were made on the counter numbered id.
CallsOfCounter(id, i) ==
    {j \in 1..i : calls[j].op = "counter" /\ calls[j].args = <<id>>}

\* C22: every counter returned by Closures has its own state: the k-th
\* call on a counter returns k, whatever was called on the other counters
\* in between.
C22_ClosuresCountSeparately ==
    \A i \in 1..Len(calls) :
        calls[i].op = "counter" =>
            calls[i].rets = <<Cardinality(CallsOfCounter(calls[i].args[1], i))>>

\* counter1, counter1, counter2, counter1 return 1, 2, 1, 3.
C22_Witness ==
    /\ Len(calls) = 6
    /\ calls[1].op = "Closures" /\ calls[2].op = "Closures"
    /\ [i \in 1..4 |-> calls[i + 2].args] = <<<<1>>, <<1>>, <<2>>, <<1>>>>
    /\ [i \in 1..4 |-> calls[i + 2].rets] = <<<<1>>, <<2>>, <<1>>, <<3>>>>

(***************************************************************************)
(* One call on a Model: Validate, Save or ProcessModel.                    *)
(***************************************************************************)
ModelOthers ==
    <<cdb, frame, fib, pipe, closures,
      counter, cache, tsm, db, account, service, fh, map1, map2, merged, now>>

\* The models: accounts of negative, zero and positive balance, and models
\* whose Validate or Save fails.
Models ==
    {ModelAccount(id, balance) :
        id \in 1..MaxModelID, balance \in (0 - MaxHalves)..MaxHalves}
    \cup {OtherModel(validate, save) :
            validate \in {ErrNil, Errorf("invalid")},
            save \in {ErrNil, Errorf("disk full")}}

CallValidate ==
    /\ ~Called
    /\ LET r == Model_Validate(fnArgs[1])
       IN  /\ fnRets' = r.rets
           /\ stdout' = stdout \o r.out
           /\ Record("Validate", fnArgs, r.rets)
    /\ UNCHANGED <<fnArgs, panicked, ModelOthers>>

CallSave ==
    /\ ~Called
    /\ LET r == Model_Save(fnArgs[1])
       IN  /\ fnRets' = r.rets
           /\ stdout' = stdout \o r.out
           /\ Record("Save", fnArgs, r.rets)
    /\ UNCHANGED <<fnArgs, panicked, ModelOthers>>

CallProcessModel ==
    /\ ~Called
    /\ LET r == ProcessModel(fnArgs[1])
       IN  /\ fnRets' = r.rets
           /\ stdout' = stdout \o r.out
           /\ calls' = calls \o r.self
                           \o <<Call("ProcessModel", fnArgs, r.rets)>>
    /\ UNCHANGED <<fnArgs, panicked, ModelOthers>>

InitModel ==
    /\ Started
    /\ IdleCachedDatabase
    /\ IdleDeferStatement
    /\ IdlePipeline
    /\ IdleClosures
    /\ fnArgs \in {<<m>> : m \in Models}
    /\ fnRets = <<>>
    /\ IdleCounter /\ IdleCache /\ IdleTypeSafeMap /\ IdleDatabase
    /\ IdleAccount /\ IdleService /\ IdleFileHandler /\ IdleMergeMaps
    /\ IdleFibonacci

NextModel ==
    \/ CallValidate
    \/ CallSave
    \/ CallProcessModel

SpecModel == InitModel /\ [][NextModel]_vars

\* The run was one call of ProcessModel.
Processed == Called /\ calls[Len(calls)].op = "ProcessModel"

\* The positions of the calls of op in the history.
CallsOf(op) == {i \in 1..Len(calls) : calls[i].op = op}

\* The lines printed, as a set.
Lines == {stdout[i] : i \in 1..Len(stdout)}

\* C23: Account.Validate returns an error exactly when Balance < 0;
\* ProcessModel calls Save only after Validate has returned nil, never
\* when Validate failed, and reports success only when both Validate and
\* Save returned nil.
C23_ProcessModelValidatesBeforeSave ==
    /\ \A i \in CallsOf("Validate") :
          calls[i].args[1].type = "Account"
              => (~calls[i].rets[1].nil <=> calls[i].args[1].Balance < 0)
    /\ Processed =>
          /\ calls[1].op = "Validate"
          /\ \A j \in CallsOf("Save") :
                /\ j > 1
                /\ calls[j - 1].op = "Validate"
                /\ calls[j - 1].rets = <<ErrNil>>
          /\ ~calls[1].rets[1].nil => CallsOf("Save") = {}
          /\ "Model processed successfully" \in Lines
                => /\ calls[1].rets = <<ErrNil>>
                   /\ \E j \in CallsOf("Save") : calls[j].rets = <<ErrNil>>

\* ProcessModel on an account of balance -1.5: Validate fails, Save is not
\* called, and only the validation error is printed.
C23_Witness ==
    /\ Processed
    /\ fnArgs = <<ModelAccount(1, 0 - 3)>>
    /\ Len(calls) = 2
    /\ stdout = <<"Validation error: balance cannot be negative">>

\* ProcessModel on an account of balance 1.5: validated, saved, reported.
C23_WitnessSaved ==
    /\ Processed
    /\ fnArgs = <<ModelAccount(1, 3)>>
    /\ stdout = <<"Saving account 1 with balance 1.50",
                  "Model processed successfully">>

(***************************************************************************)
(* Calls of Get and Set on a Cache of the exercises package, whose map is  *)
(* nil or made.                                                            *)
(***************************************************************************)
CallExerciseCacheGet ==
    /\ ~panicked
    /\ Len(calls) < MaxCacheCalls
    /\ \E key \in CacheKeys :
          LET r == Exercise_Cache_Get(cache, key)
          IN  /\ cache' = r.self
              /\ panicked' = r.panic
              /\ Record("Get", <<key>>, r.rets)
    /\ UNCHANGED CacheOthers

CallExerciseCacheSet ==
    /\ ~panicked
    /\ Len(calls) < MaxCacheCalls
    /\ \E key \in CacheKeys, value \in CacheValues :
          LET r == Exercise_Cache_Set(cache, key, value)
          IN  /\ cache' = r.self
              /\ panicked' = r.panic
              /\ Record("Set", <<key, value>>, r.rets)
    /\ UNCHANGED CacheOthers

InitExerciseCache == InitCache

NextExerciseCache ==
    \/ CallExerciseCacheGet
    \/ CallExerciseCacheSet

SpecExerciseCache == InitExerciseCache /\ [][NextExerciseCache]_vars

\* The last call made was a call of op.
LastCallWas(op) == calls # <<>> /\ calls[Len(calls)].op = op

\* C24: in the exercises package, Get on a Cache whose map is nil panics.
C24_ExerciseGetOnNilMapPanics ==
    (LastCallWas("Get") /\ cache.data.nil) => panicked

\* What the code does: Get never panics, and on a nil map it returns
\* (nil, false); it is Set that panics on a nil map.
C24_ExerciseGetReadsNilMap ==
    /\ LastCallWas("Get") =>
          /\ ~panicked
          /\ cache.data.nil => calls[Len(calls)].rets = <<VNil, FALSE>>
    /\ LastCallWas("Set") => (panicked <=> cache.data.nil)

\* Get was called on a nil map and returned (nil, false) without a panic.
C24_GetOnNilMapReturned ==
    /\ LastCallWas("Get")
    /\ cache = Cache_Zero
    /\ ~panicked
    /\ calls[Len(calls)].rets = <<VNil, FALSE>>

(***************************************************************************)
(* Calls of Increment, Value and Reset on a Counter of the exercises       *)
(* package.                                                                *)
(***************************************************************************)
CallExerciseCounterIncrement ==
    /\ Len(calls) < MaxCounterCalls
    /\ counter' = Exercise_Counter_Increment(counter)
    /\ Record("Increment", <<>>, <<>>)
    /\ UNCHANGED CounterOthers

CallExerciseCounterValue ==
    /\ Len(calls) < MaxCounterCalls
    /\ Record("Value", <<>>, <<Exercise_Counter_Value(counter)>>)
    /\ UNCHANGED <<counter, CounterOthers>>

CallExerciseCounterReset ==
    /\ Len(calls) < MaxCounterCalls
    /\ counter' = Exercise_Counter_Reset(counter)
    /\ Record("Reset", <<>>, <<>>)
    /\ UNCHANGED CounterOthers

InitExerciseCounter == InitCounter

NextExerciseCounter ==
    \/ CallExerciseCounterIncrement
    \/ CallExerciseCounterValue
    \/ CallExerciseCounterReset

SpecExerciseCounter == InitExerciseCounter /\ [][NextExerciseCounter]_vars

\* C25: in the exercises package, every Value() call returns the number of
\* Increment calls made since the most recent Reset.
C25_ExerciseCounterCounts ==
    \A i \in 1..Len(calls) :
        calls[i].op = "Value" =>
            calls[i].rets = <<IncrementsSinceReset(Before(i))>>

\* What the code does: Increment and Reset act on a copy of the counter,
\* so the counter keeps its value and Value() returns 0 every time.
C25_ExerciseCounterNeverMoves ==
    /\ counter = Counter_Zero
    /\ \A i \in 1..Len(calls) :
          calls[i].op = "Value" => calls[i].rets = <<0>>

\* Increment, Value: Value returned 0 after one Increment.
C25_ValueAfterIncrementIsZero ==
    /\ Len(calls) = 2
    /\ calls[1].op = "Increment"
    /\ calls[2].op = "Value"
    /\ calls[2].rets = <<0>>

(***************************************************************************)
(* Calls of DeferStatement, one after the other, a statement at a time.    *)
(***************************************************************************)
DeferStatementOthers ==
    <<cdb, fnArgs, fnRets, fib, pipe, closures,
      counter, cache, tsm, db, account, service, fh, map1, map2, merged,
      now, panicked>>

DeferStatementCall ==
    /\ frame = DeferStatement_Idle
    /\ Len(calls) < MaxDeferCalls
    /\ frame' = DeferStatement_Called
    /\ UNCHANGED <<calls, stdout, DeferStatementOthers>>

DeferStatementStep ==
    /\ DeferStatement_InBody(frame)
    /\ LET r == DeferStatement_Step(frame)
       IN  /\ frame' = r.self
           /\ stdout' = stdout \o r.out
    /\ UNCHANGED <<calls, DeferStatementOthers>>

DeferStatementRunDeferred ==
    /\ frame.pc > Len(DeferStatement_Body)
    /\ frame.deferred # <<>>
    /\ LET r == DeferStatement_RunDeferred(frame)
       IN  /\ frame' = r.self
           /\ stdout' = stdout \o r.out
    /\ UNCHANGED <<calls, DeferStatementOthers>>

DeferStatementReturn ==
    /\ frame.pc > Len(DeferStatement_Body)
    /\ frame.deferred = <<>>
    /\ frame' = DeferStatement_Idle
    /\ Record("DeferStatement", <<>>, <<>>)
    /\ UNCHANGED <<stdout, DeferStatementOthers>>

InitDeferStatement ==
    /\ Started
    /\ IdleCachedDatabase
    /\ IdlePipeline
    /\ IdleClosures
    /\ frame = DeferStatement_Idle
    /\ IdleCounter /\ IdleCache /\ IdleTypeSafeMap /\ IdleDatabase
    /\ IdleAccount /\ IdleService /\ IdleFileHandler /\ IdleMergeMaps
    /\ IdlePure /\ IdleFibonacci

NextDeferStatement ==
    \/ DeferStatementCall
    \/ DeferStatementStep
    \/ DeferStatementRunDeferred
    \/ DeferStatementReturn

SpecDeferStatement == InitDeferStatement /\ [][NextDeferStatement]_vars

\* The output of one call.
DeferStatementOutput ==
    <<"Start", "Middle", "End", "Deferred 3", "Deferred 2", "Deferred 1">>

\* The lines the running call has printed so far.
PrintedByCall == SubSeq(stdout, 6 * Len(calls) + 1, Len(stdout))

\* The position of the line in the sequence out, 0 when it is not there.
PositionIn(out, line) ==
    IF \E i \in 1..Len(out) : out[i] = line
    THEN CHOOSE i \in 1..Len(out) : out[i] = line
    ELSE 0

\* The deferred line a was printed, and b was not printed before it.
PrintedNotAfter(a, b) ==
    PositionIn(PrintedByCall, a) > 0 =>
        (PositionIn(PrintedByCall, b) = 0
            \/ PositionIn(PrintedByCall, a) < PositionIn(PrintedByCall, b))

\* C26: the output of DeferStatement is Start, Middle, End, Deferred 3,
\* Deferred 2, Deferred 1: what a call has printed is always a prefix of
\* it, so that no deferred line precedes End and a deferred call
\* registered later runs before one registered earlier.
C26_DeferredRunLastInFirstOut ==
    /\ Len(PrintedByCall) <= 6
    /\ PrintedByCall = SubSeq(DeferStatementOutput, 1, Len(PrintedByCall))
    /\ frame = DeferStatement_Idle => PrintedByCall = <<>>
    /\ \A i \in 1..Len(calls) :
          SubSeq(stdout, 6 * i - 5, 6 * i) = DeferStatementOutput
    /\ \A d \in {"Deferred 1", "Deferred 2", "Deferred 3"} :
          PositionIn(PrintedByCall, d) > 0
              => PositionIn(PrintedByCall, "End") \in
                     1..(PositionIn(PrintedByCall, d) - 1)
    /\ PrintedNotAfter("Deferred 3", "Deferred 2")
    /\ PrintedNotAfter("Deferred 2", "Deferred 1")

\* A call has returned after printing its six lines.
C26_Witness ==
    /\ Len(calls) = 1
    /\ frame = DeferStatement_Idle
    /\ stdout = DeferStatementOutput

(***************************************************************************)
(* One run of the iterative Fibonacci and one call of                      *)
(* AlternativeFibonacciRecursive on the same argument.                     *)
(***************************************************************************)
CallAlternativeFibonacciRecursive ==
    /\ fnRets = <<>>
    /\ LET result == AlternativeFibonacciRecursive(fib.n)
       IN  /\ fnRets' = <<result>>
           /\ Record("AlternativeFibonacciRecursive", <<fib.n>>, <<result>>)
    /\ UNCHANGED <<fnArgs, panicked, PureOthers>>

InitBothFibonacci ==
    /\ Started
    /\ IdleCachedDatabase
    /\ IdleDeferStatement
    /\ IdleClosures
    /\ IdlePipeline
    /\ fib \in {Fibonacci_Called(IntOf(n)) :
                  n \in (0 - MaxFibonacciArg)..MaxFibonacciArg}
    /\ IdleCounter /\ IdleCache /\ IdleTypeSafeMap /\ IdleDatabase
    /\ IdleAccount /\ IdleService /\ IdleFileHandler /\ IdleMergeMaps
    /\ IdlePure

NextBothFibonacci ==
    \/ FibonacciBase
    \/ FibonacciEnter
    \/ FibonacciIterate
    \/ FibonacciReturn
    \/ CallAlternativeFibonacciRecursive

SpecBothFibonacci == InitBothFibonacci /\ [][NextBothFibonacci]_vars

\* Both implementations have returned.
BothReturned == fib.pc = "done" /\ fnRets # <<>>

\* C27: Fibonacci and AlternativeFibonacciRecursive return the same value
\* for every argument of the range, negative arguments included.
C27_FibonacciImplementationsAgree ==
    BothReturned => fib.ret = fnRets[1]

\* What the code does: the two agree for every n >= 0 of the range; for
\* n < 0 the loop of Fibonacci does not run and it returns 1, while
\* AlternativeFibonacciRecursive returns n.
C27_FibonacciAgreeFromZero ==
    BothReturned =>
        IF ~fib.n.neg
        THEN fib.ret = fnRets[1]
        ELSE fib.ret = IntOf(1) /\ fnRets = <<fib.n>>

\* Fibonacci(-1) = 1 and AlternativeFibonacciRecursive(-1) = -1.
C27_NegativeArgument ==
    /\ BothReturned
    /\ fib.n = IntOf(0 - 1)
    /\ fib.ret = IntOf(1)
    /\ fnRets = <<IntOf(0 - 1)>>

\* Both return 21 for n = 8.
C27_BothReturn21 ==
    /\ BothReturned
    /\ fib.n = IntOf(8)
    /\ fib.ret = IntOf(21)
    /\ fnRets = <<IntOf(21)>>

(***************************************************************************)
(* One call of Max.                                                        *)
(***************************************************************************)
\* The values compared: ints, negative ones included, and values of other
\* types.
MaxValues ==
    {VInt(0 - 2), VInt(1), VInt(3), VString("a"), VFloat64(9), VNil}

MaxSlices ==
    {NilSlice} \cup
    {[nil |-> FALSE, elems |-> e] :
        e \in UNION {[1..n -> MaxValues] : n \in 0..MaxValuesLen}}

CallMax ==
    /\ ~Called
    /\ LET r == Max(fnArgs[1])
       IN  /\ fnRets' = r.rets
           /\ panicked' = r.panic
           /\ Record("Max", fnArgs, r.rets)
    /\ UNCHANGED <<fnArgs, PureOthers>>

InitMax ==
    /\ Started
    /\ IdleCachedDatabase
    /\ IdleDeferStatement
    /\ IdleClosures
    /\ IdlePipeline
    /\ fnArgs \in {<<values>> : values \in MaxSlices}
    /\ fnRets = <<>>
    /\ IdleCounter /\ IdleCache /\ IdleTypeSafeMap /\ IdleDatabase
    /\ IdleAccount /\ IdleService /\ IdleFileHandler /\ IdleMergeMaps
    /\ IdleFibonacci

NextMax == CallMax

SpecMax == InitMax /\ [][NextMax]_vars

\* The ints among the elements of e.
IntsOf(e) == {e[i].i : i \in {j \in 1..Len(e) : e[j].type = "int"}}

\* The largest int of a non-empty set of ints.
Largest(S) == CHOOSE x \in S : \A y \in S : y <= x

\* C28: Max never panics, returns nil for an empty slice, and for a slice
\* with at least one int returns the largest int of the slice, wherever
\* the values of other types are (also at index 0).
C28_MaxIsLargestInt ==
    /\ ~panicked
    /\ Called =>
          LET e == fnArgs[1].elems
          IN  /\ e = <<>> => fnRets = <<VNil>>
              /\ IntsOf(e) # {} => fnRets = <<VInt(Largest(IntsOf(e)))>>

\* What the code does: it returns the largest int only when the first
\* element is an int, and nil whenever the first element is not.
C28_MaxWhenFirstIsInt ==
    /\ ~panicked
    /\ Called =>
          LET e == fnArgs[1].elems
          IN  IF e # <<>> /\ e[1].type = "int"
              THEN fnRets = <<VInt(Largest(IntsOf(e)))>>
              ELSE fnRets = <<VNil>>

\* Max(["a", 3]) is nil.
C28_FirstIsNotInt ==
    /\ Called
    /\ fnArgs[1].elems = <<VString("a"), VInt(3)>>
    /\ fnRets = <<VNil>>

\* Max([1, "a", 3]) is 3.
C28_FirstIsInt ==
    /\ Called
    /\ fnArgs[1].elems = <<VInt(1), VString("a"), VInt(3)>>
    /\ fnRets = <<VInt(3)>>

(***************************************************************************)
(* FindMax of the exercise and FindMax of the solution, each called once   *)
(* on the same slice.                                                      *)
(***************************************************************************)
\* The value returned by the call of op, once it has been made.
Returned(op) == {calls[i].rets[1] : i \in CallsOf(op)}

CallExerciseFindMax ==
    /\ CallsOf("exercises.FindMax") = {}
    /\ LET max == Exercise_FindMax(fnArgs[1])
       IN  /\ fnRets' = <<max>>
           /\ Record("exercises.FindMax", fnArgs, <<max>>)
    /\ UNCHANGED <<fnArgs, panicked, PureOthers>>

CallSolutionFindMax ==
    /\ CallsOf("solutions.FindMax") = {}
    /\ LET max == FindMax(fnArgs[1])
       IN  /\ fnRets' = <<max>>
           /\ Record("solutions.FindMax", fnArgs, <<max>>)
    /\ UNCHANGED <<fnArgs, panicked, PureOthers>>

InitBothFindMax == InitFindMax

NextBothFindMax ==
    \/ CallExerciseFindMax
    \/ CallSolutionFindMax

SpecBothFindMax == InitBothFindMax /\ [][NextBothFindMax]_vars

\* C29: the exercise's FindMax and the solution's return the same value
\* for the empty slice and for every slice with an element >= 0; on every
\* non-empty slice of negative elements only they differ, the exercise
\* returning 0.
C29_FindMaxDefectIsAllNegative ==
    \A x \in Returned("exercises.FindMax"),
       s \in Returned("solutions.FindMax") :
        LET e == fnArgs[1].elems
        IN  IF e = <<>> \/ \E n \in Elements(e) : n >= 0
            THEN x = s
            ELSE x = 0 /\ x # s

\* On [-3, -2] the exercise returned 0 and the solution -2.
C29_Witness ==
    /\ fnArgs[1].elems = <<-3, -2>>
    /\ Returned("exercises.FindMax") = {0}
    /\ Returned("solutions.FindMax") = {-2}

\* On [-3, 0, -2] both returned 0.
C29_WitnessSame ==
    /\ fnArgs[1].elems = <<-3, 0, -2>>
    /\ Returned("exercises.FindMax") = {0}
    /\ Returned("solutions.FindMax") = {0}

(***************************************************************************)
(* Calls of Connect, Close, Set, Get, Log and LogError on a                *)
(* CachedDatabase made by NewCachedDatabase with a logger.                 *)
(***************************************************************************)
CachedDatabaseOthers ==
    <<fnArgs, fnRets, fib, pipe, closures, frame,
      counter, cache, tsm, db, account, service, fh, map1, map2, merged,
      now>>

\* One call on the cached database: its outcome r becomes the new state.
CachedDatabaseCall(op, args, r) ==
    /\ cdb' = r.self
    /\ stdout' = stdout \o r.out
    /\ panicked' = r.panic
    /\ Record(op, args, r.rets)
    /\ UNCHANGED CachedDatabaseOthers

CallCachedDatabaseConnect ==
    /\ ~panicked
    /\ Len(calls) < MaxCachedDatabaseCalls
    /\ CachedDatabaseCall("Connect", <<>>, CachedDatabase_Connect(cdb))

CallCachedDatabaseClose ==
    /\ ~panicked
    /\ Len(calls) < MaxCachedDatabaseCalls
    /\ CachedDatabaseCall("Close", <<>>, CachedDatabase_Close(cdb))

CallCachedDatabaseGet ==
    /\ ~panicked
    /\ Len(calls) < MaxCachedDatabaseCalls
    /\ \E key \in CacheKeys :
          CachedDatabaseCall("Get", <<key>>, CachedDatabase_Get(cdb, key))

CallCachedDatabaseSet ==
    /\ ~panicked
    /\ Len(calls) < MaxCachedDatabaseCalls
    /\ \E key \in CacheKeys, value \in CacheValues :
          CachedDatabaseCall("Set", <<key, value>>,
                             CachedDatabase_Set(cdb, key, value))

CallCachedDatabaseLog ==
    /\ ~panicked
    /\ Len(calls) < MaxCachedDatabaseCalls
    /\ \E message \in LogMessages :
          CachedDatabaseCall("Log", <<message>>,
                             CachedDatabase_Log(cdb, message))

CallCachedDatabaseLogError ==
    /\ ~panicked
    /\ Len(calls) < MaxCachedDatabaseCalls
    /\ \E err \in LogErrors :
          CachedDatabaseCall("LogError", <<err>>,
                             CachedDatabase_LogError(cdb, err))

InitCachedDatabase ==
    /\ Started
    /\ IdleDeferStatement
    /\ IdleClosures
    /\ IdlePipeline
    /\ cdb \in {NewCachedDatabase(connStr, logger) :
                   connStr \in {"test://localhost", ""},
                   logger \in {SimpleLogger("CacheDB"), SimpleLogger("")}}
    /\ IdleCounter /\ IdleCache /\ IdleTypeSafeMap /\ IdleDatabase
    /\ IdleAccount /\ IdleService /\ IdleFileHandler /\ IdleMergeMaps
    /\ IdlePure /\ IdleFibonacci

NextCachedDatabase ==
    \/ CallCachedDatabaseConnect
    \/ CallCachedDatabaseClose
    \/ CallCachedDatabaseGet
    \/ CallCachedDatabaseSet
    \/ CallCachedDatabaseLog
    \/ CallCachedDatabaseLogError

SpecCachedDatabase == InitCachedDatabase /\ [][NextCachedDatabase]_vars

\* A new CachedDatabase is not connected, and its cache is made and empty.
FreshCachedDatabase ==
    /\ ~cdb.Database.Connected
    /\ ~cdb.Cache.data.nil
    /\ DOMAIN cdb.Cache.data.kv = {}

\* A step that is a call of Connect or Close leaves the cache and the
\* connection string as they were; a step that is a call of Set or Get
\* leaves the Database as it was; a call that logs directly changes
\* neither; no call panics.
HalvesAreIndependent ==
    Len(calls') > Len(calls) =>
        LET op == calls'[Len(calls')].op
        IN  /\ ~panicked'
            /\ op \in {"Connect", "Close"} =>
                  /\ cdb'.Cache = cdb.Cache
                  /\ cdb'.Database.ConnectionString
                         = cdb.Database.ConnectionString
                  /\ cdb'.Database.Connected = (op = "Connect")
            /\ op \in {"Set", "Get"} =>
                  /\ cdb'.Database = cdb.Database
                  /\ op = "Get" => cdb'.Cache = cdb.Cache
            /\ op \in {"Log", "LogError"} => cdb' = cdb

\* C30: a CachedDatabase from NewCachedDatabase starts not connected with
\* an empty, initialized cache; Connect and Close change only Connected,
\* and Set and Get never change Connected or ConnectionString.
C30_CachedDatabaseHalvesIndependent ==
    /\ FreshCachedDatabase
    /\ [][HalvesAreIndependent]_vars

\* Set, Connect, Get: the value set before the connection is read after
\* it, and the database is connected.
C30_Witness ==
    /\ Len(calls) = 3
    /\ calls[1].op = "Set" /\ calls[2].op = "Connect" /\ calls[3].op = "Get"
    /\ calls[3].args = <<calls[1].args[1]>>
    /\ calls[3].rets = <<calls[1].args[2], TRUE>>
    /\ cdb.Database.Connected

====
